---- MODULE Spec2Model ----
(***************************************************************************)
(* wb-notifier: the UDP request server (server/src/lib.rs), its request    *)
(* tasks and the notification blinker (server/src/tasks.rs), the device    *)
(* drivers (driver/src/bargraph.rs, driver/src/lcd.rs), the client         *)
(* (client/src/lib.rs) and the blink task of the earlier server            *)
(* (src/bargraph/tasks.rs).                                                *)
(*                                                                         *)
(* One step of the model is one poll of a task on the single-threaded      *)
(* executor (from one await to the next) or one step of a closure that     *)
(* `unblock` runs on a blocking-worker thread (lock, driver call).         *)
(***************************************************************************)
EXTENDS Integers, Sequences, FiniteSets, TLC

VARIABLES
    boot,       \* main_loop before its receive loop: where it is in the device list
                \* and in the handler registrations, the blink tasks it spawned
    serving,    \* main_loop is in its receive loop (FALSE once a handler panicked)
    sensors,    \* Context.sensors: which device handles are Some
    recvd,      \* number of datagrams recv_from has returned so far
    log,        \* what dispatch returned for each of them, in order of arrival
    ctxAddr,    \* Context.addr, the peer of the datagram received last
    tasks,      \* the detached request tasks, by arrival number
    bgLock,     \* holder of the Arc<Mutex<Bargraph>>: 0 free, task number, or Blinker
    cells,      \* the HT16K33 display buffer: the set of lit <<row, col>> cells
    dimming,    \* last dimming value given to set_dimming
    display,    \* last display mode given to set_display
    lcdLock,    \* holder of the Arc<Mutex<Lcd>>
    backlight,  \* last value given to Lcd::set_backlight
    lcdDrv,     \* the HD44780 behind Lcd: the write_msg call in progress, the cursor,
                \* the display RAM and the data bytes written since the last clear
    blinkPair,  \* blink_task/blink_loop of the earlier server (src/src) and the
                \* state machine of background::blink, given the same inputs: where
                \* each is, the commands each has issued, and the inputs so far
    blinkChan,  \* the bounded(1) BlinkInfo channel of main_loop
    blink,      \* the blink task: its state, where it is in the loop, and the
                \* transition it made last (from prev, via an event ev or a token tok)
    timer,      \* curr_task of the blink task
    waitDone,   \* the bounded(1) wait_done channel of the blink task
    epoch,      \* since the blinker last consumed an event: that event, the state it
                \* was consumed in, the display commands issued and the timer time elapsed
    out,        \* the response datagram the last step handed to the socket
    conf,       \* Client: its socket (None before connect) and its retries
    cl,         \* Client::raw: where the call is, its retry counter, its result
    net,        \* request datagrams of the client on their way to the server
    inbox       \* datagrams waiting in the client's socket

serverVars == <<boot, lcdDrv, blinkPair, serving, sensors, recvd, log, ctxAddr, tasks, bgLock, cells, dimming, display,
                lcdLock, backlight, blinkChan, blink, timer, waitDone, epoch, out>>

clientVars == <<conf, cl, net, inbox>>

vars == <<serverVars, clientVars>>

-----------------------------------------------------------------------------
(* Bounds and input sets *)

MaxDatagrams == 2

MaxRetries == 2

MaxCalls == 2

MaxInbox == 1

\* The peers that send datagrams: peerA calls through the client library
\* (seq_no 0), peerB numbers its requests itself.
Peers == {[addr |-> "peerA", seq_no |-> 0], [addr |-> "peerB", seq_no |-> 7]}

NoNum == 0 - 1

\* Task slots: one more than the datagrams the full input set is explored for.
MaxTasks == MaxDatagrams + 1

Blinker == MaxTasks + 1

-----------------------------------------------------------------------------
(* Endpoints and keys *)

\* Key::for_path::<PRQ>(path): a fingerprint of the path and the request schema.
KeyFor(path, schema) == <<path, schema>>

EchoEndpoint == [path |-> "debug/echo", req |-> "Echo", handler |-> "echo"]

SetLedEndpoint == [path |-> "led/set", req |-> "SetLed", handler |-> "set_led"]

SetDimmingEndpoint == [path |-> "led/dimming", req |-> "SetDimming", handler |-> "set_dimming"]

NotifyEndpoint == [path |-> "led/notify", req |-> "Notify", handler |-> "notify"]

AckEndpoint == [path |-> "led/ack", req |-> "Ack", handler |-> "ack"]

SetBacklightEndpoint == [path |-> "lcd/backlight", req |-> "SetBacklight", handler |-> "set_backlight"]

SendMsgEndpoint == [path |-> "lcd/msg", req |-> "SendMsg", handler |-> "send_msg"]

\* The dispatch table main_loop builds with add_handler.
Handlers ==
    {EchoEndpoint, SetLedEndpoint, SetDimmingEndpoint, NotifyEndpoint,
     AckEndpoint, SetBacklightEndpoint, SendMsgEndpoint}

EndpointKey(e) == KeyFor(e.path, e.req)

Registered(key) == \E e \in Handlers : EndpointKey(e) = key

HandlerOf(key) == CHOOSE e \in Handlers : EndpointKey(e) = key

-----------------------------------------------------------------------------
(* Payloads. A payload is the typed value whose postcard bytes follow the   *)
(* header: its schema, an LED number (NoNum when the type has none or the   *)
(* Option is None) and its enum or text argument.                           *)

Payload(schema, num, arg) == [schema |-> schema, num |-> num, arg |-> arg]

EchoText == <<"h", "i", "!">>

\* What a peer asks for: an endpoint path and the payload sent with it.
Request(path, body) == [path |-> path, body |-> body]

Requests ==
    {Request("debug/echo", Payload("Echo", NoNum, EchoText))}
    \cup {Request("bad/path", Payload("Echo", NoNum, EchoText))}
    \cup {Request("led/set", Payload("SetLed", n, "Red")) : n \in {13, 24}}
    \cup {Request("led/set", Payload("SetLed", 2, "Green"))}
    \cup {Request("led/dimming", Payload("SetDimming", NoNum, "Hi"))}
    \cup {Request("led/notify", Payload("Notify", 1, s)) : s \in {"Ok", "Warning", "Error"}}
    \cup {Request("led/notify", Payload("Notify", 24, "Error"))}
    \cup {Request("led/ack", Payload("Ack", n, "-")) : n \in {1, 24, NoNum}}
    \cup {Request("lcd/backlight", Payload("SetBacklight", NoNum, "Off"))}

\* A datagram: source address, header (seq_no, key), payload.
Datagram(src, seq, key, body) == [src |-> src, seq_no |-> seq, key |-> key, body |-> body]

NoPayload == Payload("-", NoNum, "-")

\* Datagrams no client library produces: one too short to hold a header (no
\* key), and one with the header of led/set followed by bytes that are no SetLed.
Malformed ==
    {Datagram("peerB", 0, <<>>, NoPayload),
     Datagram("peerB", 7, KeyFor("led/set", "SetLed"), Payload("Garbage", NoNum, "-"))}

\* to_slice_keyed(seq_no, Key::for_path::<PRQ>(path), payload) sent from src,
\* and the malformed datagrams.
Datagrams ==
    {Datagram(p.addr, p.seq_no, KeyFor(r.path, r.body.schema), r.body) :
        p \in Peers, r \in Requests}
    \cup Malformed

-----------------------------------------------------------------------------
(* Pure functions *)

\* char::to_uppercase over the characters the model sends.
UpperChar(c) ==
    CASE c = "h" -> "H"
      [] c = "i" -> "I"
      [] OTHER -> c

\* String::to_uppercase (handlers::echo).
to_uppercase(s) == [i \in 1..Len(s) |-> UpperChar(s[i])]

\* A notify that takes Warning for Red and Error for Yellow.
StatusColor_Swapped(status) ==
    CASE status = "Ok" -> "Green"
      [] status = "Warning" -> "Red"
      [] status = "Error" -> "Yellow"

\* handlers::notify: the color of a status.
StatusColor(status) ==
    CASE status = "Ok" -> "Green"
      [] status = "Warning" -> "Yellow"
      [] status = "Error" -> "Red"

\* A mapping without the offset of the upper twelve LEDs.
LedRow_NoOffset(num) == num % 4

\* Bargraph::set_led_no: row and column of the red cell of LED num.
LedRow(num) == IF num >= 12 THEN (num % 4) + 4 ELSE num % 4

LedCol(num) == (num \div 4) % 3

RedLoc(num) == <<LedRow(num), LedCol(num)>>

GreenLoc(num) == <<LedRow(num) + 8, LedCol(num)>>

\* A set_led_no that starts from an empty display buffer.
set_led_no_FreshBuffer(buf, num, color, io) ==
    IF num > 23
    THEN [ok |-> FALSE, cells |-> buf, wrote |-> FALSE]
    ELSE LET red == IF color \in {"Red", "Yellow"} THEN {RedLoc(num)} ELSE {}
             green == IF color \in {"Green", "Yellow"} THEN {GreenLoc(num)} ELSE {}
         IN  [ok |-> io, cells |-> red \cup green, wrote |-> TRUE]

\* A set_led_no that lights cells without switching the LED's two cells off
\* first.
set_led_no_NoClear(buf, num, color, io) ==
    IF num > 23
    THEN [ok |-> FALSE, cells |-> buf, wrote |-> FALSE]
    ELSE LET red == IF color \in {"Red", "Yellow"} THEN {RedLoc(num)} ELSE {}
             green == IF color \in {"Green", "Yellow"} THEN {GreenLoc(num)} ELSE {}
         IN  [ok |-> io, cells |-> buf \cup red \cup green, wrote |-> TRUE]

\* Bargraph::set_led_no(num, color) on display buffer buf with I2C outcome io:
\* the result, the new display buffer and whether the buffer was written out.
set_led_no(buf, num, color, io) ==
    IF num > 23
    THEN [ok |-> FALSE, cells |-> buf, wrote |-> FALSE]
    ELSE LET cleared == buf \ {RedLoc(num), GreenLoc(num)}
             red == IF color \in {"Red", "Yellow"} THEN {RedLoc(num)} ELSE {}
             green == IF color \in {"Green", "Yellow"} THEN {GreenLoc(num)} ELSE {}
         IN  [ok |-> io, cells |-> cleared \cup red \cup green, wrote |-> TRUE]

\* Bargraph::clear_all: every cell of the display buffer off, buffer written out.
clear_all(buf, io) == [ok |-> io, cells |-> {}, wrote |-> TRUE]

\* The color LED num shows in display buffer buf.
LedColorOf(buf, num) ==
    CASE RedLoc(num) \in buf /\ GreenLoc(num) \in buf -> "Yellow"
      [] RedLoc(num) \in buf /\ GreenLoc(num) \notin buf -> "Red"
      [] RedLoc(num) \notin buf /\ GreenLoc(num) \in buf -> "Green"
      [] OTHER -> "Off"

\* A blinker whose Slow state switches the blinking off.
DisplayOf_SlowSteady(state) ==
    CASE state \in {"Off", "Slow"} -> "ON"
      [] state = "Fast" -> "TWO_HZ"
      [] state = "Med" -> "ONE_HZ"

\* background::blink, first match: the display mode of a state.
DisplayOf(state) ==
    CASE state = "Off" -> "ON"
      [] state = "Fast" -> "TWO_HZ"
      [] state = "Med" -> "ONE_HZ"
      [] state = "Slow" -> "HALF_HZ"

\* background::blink, first match: the timer of a state (0: future::pending()).
DurationOf(state) ==
    CASE state = "Fast" -> 60
      [] state = "Med" -> 300
      [] state = "Slow" -> 900
      [] OTHER -> 0

\* A blinker that starts over after the Slow period instead of stopping.
OnTimerDone_Loop(state) ==
    CASE state = "Init" -> "Off"
      [] state = "Slow" -> "Fast"
      [] state = "Off" -> "Fast"
      [] state = "Fast" -> "Med"
      [] state = "Med" -> "Slow"

\* background::blink, FinishedFirst::Them: the state after a timer-done message.
OnTimerDone(state) ==
    CASE state \in {"Init", "Slow"} -> "Off"
      [] state = "Off" -> "Fast"
      [] state = "Fast" -> "Med"
      [] state = "Med" -> "Slow"

\* A blinker that goes to Off only when the Ack left no LED lit.
OnEvent_WhileLit(state, led) ==
    CASE led = "LedSet" -> "Fast"
      [] led = "LedClear" -> IF cells = {} THEN "Off" ELSE "Fast"

\* A blinker that lets a running Slow period finish when another LED is set.
OnEvent_KeepSlow(state, led) ==
    CASE led = "LedSet" -> IF state = "Slow" THEN "Slow" ELSE "Fast"
      [] led = "LedClear" -> "Off"

\* background::blink, FinishedFirst::Us(Ok(led)): the state after an event
\* consumed in state `state`.
OnEvent(state, led) ==
    CASE led = "LedSet" -> "Fast"
      [] led = "LedClear" -> "Off"

-----------------------------------------------------------------------------
(* blink_task and blink_loop of the earlier server, beside the state machine *)

MaxInputs == 6

\* BlockingEventLoop::run: the display mode a blink command sets.
ModeOf(cmd) ==
    CASE cmd = "StartBlink" -> "TWO_HZ"
      [] cmd = "MediumBlink" -> "ONE_HZ"
      [] cmd = "SlowBlink" -> "HALF_HZ"
      [] cmd = "StopBlink" -> "ON"

\* A blink_loop that goes on blinking when an LED is cleared.
OnBlinkInfo_KeepBlinking(at, bi) ==
    IF bi = "LedSet"
    THEN [at |-> "sleep60", cmds |-> <<"StartBlink">>]
    ELSE [at |-> at, cmds |-> <<>>]

\* blink_task (at = "recv") and blink_loop (at one of its three sleeps) on a
\* BlinkInfo: where the task waits next and the commands it sends before.
OnBlinkInfo(at, bi) ==
    IF bi = "LedSet"
    THEN [at |-> "sleep60", cmds |-> <<"StartBlink">>]
    ELSE IF at = "recv"
         THEN [at |-> "recv", cmds |-> <<>>]
         ELSE [at |-> "recv", cmds |-> <<"StopBlink">>]

\* blink_loop when the sleep it waits on elapses.
OnSleepDone(at) ==
    CASE at = "sleep60" -> [at |-> "sleep300", cmds |-> <<"MediumBlink">>]
      [] at = "sleep300" -> [at |-> "sleep900", cmds |-> <<"SlowBlink">>]
      [] at = "sleep900" -> [at |-> "recv", cmds |-> <<"StopBlink">>]

\* One iteration of the loop of background::blink: the state after the select
\* and the display mode the first match of the next iteration sets.
OnSelect(state, input) ==
    LET next == IF input = "TimerDone" THEN OnTimerDone(state) ELSE OnEvent(state, input)
    IN  [state |-> next, cmds |-> <<DisplayOf(next)>>]

\* Both tasks before their first input.
PairIdle ==
    [at |-> "recv", sent |-> <<>>, state |-> "Init", shown |-> <<>>, inputs |-> <<>>]

-----------------------------------------------------------------------------
(* Request tasks *)

NoTask ==
    [pc |-> "none", handler |-> "-", seq_no |-> 0, key |-> <<>>, addr |-> "-",
     msg |-> Payload("-", NoNum, "-"), req |-> <<>>, ok |-> FALSE, wrote |-> FALSE,
     pushed |-> FALSE]

TaskIds == 1..MaxTasks

\* The device a handler locks ("none" for echo).
DeviceOf(handler) ==
    CASE handler \in {"set_led", "set_dimming", "notify", "ack"} -> "bargraph"
      [] handler \in {"set_backlight", "send_msg"} -> "lcd"
      [] OTHER -> "none"

\* The event a handler pushes to the blinker after its driver call.
EventOf(handler) ==
    CASE handler = "notify" -> "LedSet"
      [] handler = "ack" -> "LedClear"
      [] OTHER -> "none"

-----------------------------------------------------------------------------
(* driver::Lcd: the HD44780 behind it and write_msg (driver/src/lcd.rs).    *)
(* A character is its code point; the display RAM is indexed by the 7-bit   *)
(* address that set_cursor_pos sends to the controller.                     *)

\* char::is_ascii
is_ascii(c) == c < 128

\* `i as u8`
AsU8(i) == i % 256

LcdAddrs == 0..127

Blank == 32

\* The controller after Lcd::initialize (reset, clear): no call in progress.
LcdIdle ==
    [pc |-> "idle", msg |-> <<>>, i |-> 0, cursor |-> 0,
     ram |-> [a \in LcdAddrs |-> Blank], bytes |-> <<>>, at |-> <<>>, res |-> "none"]

\* drv.clear: every cell is blank and the cursor is at address 0.
clear(d) ==
    [d EXCEPT !.ram = [a \in LcdAddrs |-> Blank], !.cursor = 0, !.bytes = <<>>, !.at = <<>>]

\* drv.set_cursor_pos(position): the low seven bits become the address.
set_cursor_pos(d, position) == [d EXCEPT !.cursor = position % 128]

\* drv.write_byte(b): the byte is stored at the cursor, which advances by one.
write_byte(d, b) ==
    [d EXCEPT !.ram[d.cursor] = b, !.bytes = Append(@, b), !.at = Append(@, d.cursor),
              !.cursor = (d.cursor + 1) % 128]

\* The cell of the 20x4 display that shows a display RAM address: the rows
\* of an HD44780 start at 0x00, 0x40, 0x14 and 0x54.
NoCell == <<-1, -1>>

CellOf(a) ==
    IF a \in 0..19 THEN <<0, a>>
    ELSE IF a \in 64..83 THEN <<1, a - 64>>
    ELSE IF a \in 20..39 THEN <<2, a - 20>>
    ELSE IF a \in 84..103 THEN <<3, a - 84>>
    ELSE NoCell

\* n distinct printable ASCII characters.
Ascii(n) == [k \in 1..n |-> 32 + k]

\* Texts of SendMsg: ASCII texts up to one character more than the display
\* holds, and texts with characters outside ASCII (233, 8364).
LcdMsgs ==
    { Ascii(n) : n \in {0, 1, 20, 25, 41, 81} }
    \cup { <<233>> \o Ascii(24), Ascii(19) \o <<8364>> \o Ascii(3), <<233, 8364>>,
           <<72, 233, 105>> }

\* A loop that writes every character, ASCII or not, as a byte.
write_char_Any(d, c) == write_byte(d, AsU8(c))

\* The body of the loop for the character c at index d.i, without the `?`.
write_char(d, c) ==
    IF is_ascii(c) THEN write_byte(d, c) ELSE d

\* The cursor is moved before the character at index i.
MoveDue(i) == i % 20 = 0 /\ i # 0

\* lcd.write_msg(msg) is called (by the closure of a SendMsg task, which
\* holds the Lcd mutex for the whole call).
WriteMsgCall ==
    /\ lcdDrv.pc \in {"idle", "done"}
    /\ \E m \in LcdMsgs :
        lcdDrv' = [lcdDrv EXCEPT !.pc = "clear", !.msg = m, !.i = 0, !.res = "none"]
    /\ UNCHANGED <<boot, serving, sensors, recvd, log, ctxAddr, tasks, bgLock, cells,
                   dimming, display, lcdLock, backlight, blinkChan, blink, timer, waitDone,
                   epoch, out, blinkPair, clientVars>>

\* self.drv.clear(..).map_err(|_| Error::Clear)?
WriteMsgClear ==
    /\ lcdDrv.pc = "clear"
    /\ \E ok \in BOOLEAN :
        lcdDrv' = IF ok
                  THEN [clear(lcdDrv) EXCEPT !.pc = "home"]
                  ELSE [lcdDrv EXCEPT !.pc = "done", !.res = "Err(Clear)"]
    /\ UNCHANGED <<boot, serving, sensors, recvd, log, ctxAddr, tasks, bgLock, cells,
                   dimming, display, lcdLock, backlight, blinkChan, blink, timer, waitDone,
                   epoch, out, blinkPair, clientVars>>

\* self.drv.set_cursor_pos(0, ..).map_err(|_| Error::SetCursorPos)?; self.pos = 0
WriteMsgHome ==
    /\ lcdDrv.pc = "home"
    /\ \E ok \in BOOLEAN :
        lcdDrv' = IF ok
                  THEN [set_cursor_pos(lcdDrv, 0) EXCEPT !.pc = "loop"]
                  ELSE [lcdDrv EXCEPT !.pc = "done", !.res = "Err(SetCursorPos)"]
    /\ UNCHANGED <<boot, serving, sensors, recvd, log, ctxAddr, tasks, bgLock, cells,
                   dimming, display, lcdLock, backlight, blinkChan, blink, timer, waitDone,
                   epoch, out, blinkPair, clientVars>>

\* One iteration of `for (i, c) in msg.chars().enumerate()`: the cursor is
\* set to the character index at every multiple of 20 but 0, then the
\* character is written if it is ASCII; either driver call may fail.
WriteMsgChar ==
    /\ lcdDrv.pc = "loop"
    /\ lcdDrv.i < Len(lcdDrv.msg)
    /\ LET i == lcdDrv.i
           c == lcdDrv.msg[i + 1]
           moved == IF MoveDue(i) THEN set_cursor_pos(lcdDrv, AsU8(i)) ELSE lcdDrv
       IN  \E fail \in {"none", "SetCursorPos", "WriteStr"} :
            /\ fail = "SetCursorPos" => MoveDue(i)
            /\ fail = "WriteStr" => is_ascii(c)
            /\ lcdDrv' =
                 IF fail = "SetCursorPos"
                 THEN [lcdDrv EXCEPT !.pc = "done", !.res = "Err(SetCursorPos)"]
                 ELSE IF fail = "WriteStr"
                 THEN [moved EXCEPT !.pc = "done", !.res = "Err(WriteStr)"]
                 ELSE [write_char(moved, c) EXCEPT !.i = i + 1]
    /\ UNCHANGED <<boot, serving, sensors, recvd, log, ctxAddr, tasks, bgLock, cells,
                   dimming, display, lcdLock, backlight, blinkChan, blink, timer, waitDone,
                   epoch, out, blinkPair, clientVars>>

\* Ok(0) after the last character.
WriteMsgReturn ==
    /\ lcdDrv.pc = "loop"
    /\ lcdDrv.i = Len(lcdDrv.msg)
    /\ lcdDrv' = [lcdDrv EXCEPT !.pc = "done", !.res = "Ok(0)"]
    /\ UNCHANGED <<boot, serving, sensors, recvd, log, ctxAddr, tasks, bgLock, cells,
                   dimming, display, lcdLock, backlight, blinkChan, blink, timer, waitDone,
                   epoch, out, blinkPair, clientVars>>

\* handlers::send_msg: the SendMsgResponse for the result of write_msg.
SendMsgReply(res) == IF res = "Ok(0)" THEN "Ok(Ok)" ELSE "Err(RequestError)"

-----------------------------------------------------------------------------
(* Initial state: main_loop has initialized the configured devices, spawned *)
(* the blink task and registered the handlers; no datagram was received.    *)

NoReply ==
    [to |-> "-", seq_no |-> 0, key |-> <<>>, body |-> "-", req |-> <<>>,
     handler |-> "-", pushed |-> FALSE]

NoToken == [dur |-> 0, stale |-> FALSE]

NoEvent == [led |-> "none", num |-> NoNum, ok |-> FALSE]

BlinkInit ==
    [state |-> "Init", pc |-> "top", ev |-> NoEvent, prev |-> "Init",
     via |-> "none", tok |-> NoToken, drained |-> FALSE]

NoTimer == [st |-> "none", dur |-> 0, stale |-> FALSE]

\* main_loop at its first recv_from: the devices of the configuration
\* (bargraph, then LCD) were initialized in order, a blink task was spawned
\* for the bargraph, and the seven handlers are registered.
Booted(devs) ==
    [pc |-> "serve",
     conf |-> (IF devs.bargraph THEN <<"Bargraph">> ELSE <<>>)
              \o (IF devs.lcd THEN <<"Hd44780">> ELSE <<>>),
     idx |-> (IF devs.bargraph THEN 1 ELSE 0) + (IF devs.lcd THEN 1 ELSE 0),
     bg |-> devs.bargraph, lcd |-> devs.lcd,
     blinkers |-> IF devs.bargraph THEN <<1>> ELSE <<>>,
     reg |-> Cardinality(Handlers), err |-> "none"]

InitServer(devs) ==
    /\ boot = Booted(devs)
    /\ serving = TRUE
    /\ sensors = devs
    /\ recvd = 0
    /\ log = <<>>
    /\ ctxAddr = "-"
    /\ tasks = [t \in TaskIds |-> NoTask]
    /\ bgLock = 0
    /\ cells = {}
    /\ dimming = "BRIGHTNESS_3_16"
    /\ display = "ON"
    /\ lcdLock = 0
    /\ backlight = "On"
    /\ lcdDrv = LcdIdle
    /\ blinkPair = PairIdle
    /\ blinkChan = <<>>
    /\ blink = IF devs.bargraph THEN BlinkInit ELSE [BlinkInit EXCEPT !.pc = "absent"]
    /\ timer = NoTimer
    /\ waitDone = <<>>
    /\ epoch = [led |-> "none", from |-> "Init", cmds |-> <<>>, elapsed |-> 0]
    /\ out = NoReply

MaxSends == MaxRetries + 2

NoResult == [kind |-> "none", retries |-> 0]

\* Client::new(): no call is in progress.
ClientIdle ==
    [pc |-> "idle", call |-> 0, key |-> <<>>, retry |-> 0, sent |-> 0, got |-> <<>>,
     res |-> NoResult, fate |-> [i \in 1..MaxSends |-> "unsent"], io |-> "none"]

InitNoClient ==
    /\ conf = [retries |-> 0, sock |-> "Some"]
    /\ cl = ClientIdle
    /\ net = {}
    /\ inbox = <<>>

Init ==
    /\ InitServer([bargraph |-> TRUE, lcd |-> TRUE])
    /\ InitNoClient

-----------------------------------------------------------------------------
(* Server::main_loop, from Server::new to the first recv_from *)

MaxBootDatagrams == 1

\* The device lists given to Server::new.
BootConfigs ==
    {<<>>, <<"Bargraph">>, <<"Hd44780">>, <<"Bargraph", "Hd44780">>,
     <<"Hd44780", "Bargraph">>, <<"Bargraph", "Bargraph">>}

\* main_loop itself as the holder of a device mutex.
Main == Blinker + 1

\* Server::new(addr, devices) and the bind of the socket: nothing is
\* initialized, no blink task exists, no handler is registered.
InitBoot ==
    /\ \E c \in BootConfigs :
        boot = [pc |-> "devices", conf |-> c, idx |-> 0, bg |-> FALSE, lcd |-> FALSE,
                blinkers |-> <<>>, reg |-> 0, err |-> "none"]
    /\ serving = FALSE
    /\ sensors = [bargraph |-> FALSE, lcd |-> FALSE]
    /\ recvd = 0
    /\ log = <<>>
    /\ ctxAddr = "-"
    /\ tasks = [t \in TaskIds |-> NoTask]
    /\ bgLock = 0
    /\ cells = {}
    /\ dimming = "unset"
    /\ display = "ON"
    /\ lcdLock = 0
    /\ backlight = "On"
    /\ lcdDrv = LcdIdle
    /\ blinkPair = PairIdle
    /\ blinkChan = <<>>
    /\ blink = [BlinkInit EXCEPT !.pc = "absent"]
    /\ timer = NoTimer
    /\ waitDone = <<>>
    /\ epoch = [led |-> "none", from |-> "Init", cmds |-> <<>>, elapsed |-> 0]
    /\ out = NoReply
    /\ InitNoClient

\* The device main_loop is at in its configuration.
BootDevice == boot.conf[boot.idx + 1]

\* A blink task for every device, whatever its driver.
SpawnBlink_Every(blinkers, driver, i) == Append(blinkers, i)

\* ex.spawn(tasks::background::blink(..)).detach() in the Bargraph arm: the
\* blink tasks spawned so far, by the position of their device.
SpawnBlink(blinkers, driver, i) ==
    IF driver = "Bargraph" THEN Append(blinkers, i) ELSE blinkers

\* The mutex of the next device is created and try_lock_arc().unwrap() takes
\* it; Lcd::new can fail before there is a mutex.
BootLock ==
    /\ boot.pc = "devices"
    /\ boot.idx < Len(boot.conf)
    /\ bgLock # Main /\ lcdLock # Main
    /\ IF BootDevice = "Bargraph"
       THEN /\ bgLock' = Main
            /\ UNCHANGED <<lcdLock, boot>>
       ELSE \E new \in BOOLEAN :
            IF new
            THEN /\ lcdLock' = Main
                 /\ UNCHANGED <<bgLock, boot>>
            ELSE /\ boot' = [boot EXCEPT !.pc = "failed", !.err = "Init(Driver(Hd44780))"]
                 /\ UNCHANGED <<bgLock, lcdLock>>
    /\ UNCHANGED <<serving, sensors, recvd, log, ctxAddr, tasks, cells, dimming, display,
                   backlight, blinkChan, blink, timer, waitDone, epoch, out, lcdDrv, blinkPair, clientVars>>

\* A main_loop that keeps the guard of the device it initialized.
BootInit_KeepGuard ==
    /\ boot.pc = "devices"
    /\ boot.idx < Len(boot.conf)
    /\ bgLock = Main \/ lcdLock = Main
    /\ boot' = [boot EXCEPT
                    !.idx = @ + 1,
                    !.bg = @ \/ BootDevice = "Bargraph",
                    !.lcd = @ \/ BootDevice = "Hd44780",
                    !.blinkers = SpawnBlink(@, BootDevice, boot.idx + 1)]
    /\ dimming' = IF BootDevice = "Bargraph" THEN "BRIGHTNESS_3_16" ELSE dimming
    /\ blink' = IF BootDevice = "Bargraph"
                THEN [BlinkInit EXCEPT !.pc = "spawned"]
                ELSE blink
    /\ UNCHANGED <<serving, sensors, recvd, log, ctxAddr, tasks, bgLock, cells, display,
                   lcdLock, backlight, blinkChan, timer, waitDone, epoch, out, lcdDrv, blinkPair,
                   clientVars>>

\* initialize() (and set_dimming for the bargraph) under the guard, which is
\* dropped at the end of the block or when `?` returns the error; then the
\* blink task of a bargraph is spawned with a new channel, and the handle and
\* the sender replace the ones of an earlier device of the same driver.
BootInit ==
    /\ boot.pc = "devices"
    /\ bgLock = Main \/ lcdLock = Main
    /\ bgLock' = IF bgLock = Main THEN 0 ELSE bgLock
    /\ lcdLock' = IF lcdLock = Main THEN 0 ELSE lcdLock
    /\ \E ok \in BOOLEAN :
        IF ok
        THEN /\ boot' = [boot EXCEPT
                            !.idx = @ + 1,
                            !.bg = @ \/ BootDevice = "Bargraph",
                            !.lcd = @ \/ BootDevice = "Hd44780",
                            !.blinkers = SpawnBlink(@, BootDevice, boot.idx + 1)]
             /\ dimming' = IF BootDevice = "Bargraph" THEN "BRIGHTNESS_3_16" ELSE dimming
             /\ blink' = IF BootDevice = "Bargraph"
                         THEN [BlinkInit EXCEPT !.pc = "spawned"]
                         ELSE blink
        ELSE /\ boot' = [boot EXCEPT !.pc = "failed",
                                     !.err = IF BootDevice = "Bargraph"
                                             THEN "Init(Driver(Bargraph))"
                                             ELSE "Init(Driver(Hd44780))"]
             /\ UNCHANGED <<dimming, blink>>
    /\ UNCHANGED <<serving, sensors, recvd, log, ctxAddr, tasks, cells, display,
                   backlight, blinkChan, timer, waitDone, epoch, out, lcdDrv, blinkPair, clientVars>>

\* After the last device: the handles go into the Context.
BootContext ==
    /\ boot.pc = "devices"
    /\ boot.idx = Len(boot.conf)
    /\ sensors' = [bargraph |-> boot.bg, lcd |-> boot.lcd]
    /\ boot' = [boot EXCEPT !.pc = "handlers"]
    /\ UNCHANGED <<serving, recvd, log, ctxAddr, tasks, bgLock, cells, dimming, display,
                   lcdLock, backlight, blinkChan, blink, timer, waitDone, epoch, out,
                   lcdDrv, blinkPair, clientVars>>

\* A main_loop that notes the error of add_handler and goes on.
OnAddHandler_Ignore(b, ok) ==
    [b EXCEPT !.reg = @ + 1, !.err = IF ok THEN @ ELSE "Init(Dispatch)"]

\* dispatch.add_handler::<E>(h).map_err(..)?: the next handler is registered,
\* or main_loop returns the error.
OnAddHandler(b, ok) ==
    IF ok
    THEN [b EXCEPT !.reg = @ + 1]
    ELSE [b EXCEPT !.pc = "failed", !.err = "Init(Dispatch)"]

BootRegister ==
    /\ boot.pc = "handlers"
    /\ boot.reg < Cardinality(Handlers)
    /\ \E ok \in BOOLEAN : boot' = OnAddHandler(boot, ok)
    /\ UNCHANGED <<serving, sensors, recvd, log, ctxAddr, tasks, bgLock, cells, dimming,
                   display, lcdLock, backlight, blinkChan, blink, timer, waitDone, epoch,
                   out, lcdDrv, blinkPair, clientVars>>

\* main_loop enters its loop and awaits recv_from: from now on the executor
\* polls the blink task it spawned.
BootServe ==
    /\ boot.pc = "handlers"
    /\ boot.reg = Cardinality(Handlers)
    /\ boot' = [boot EXCEPT !.pc = "serve"]
    /\ serving' = TRUE
    /\ blink' = IF blink.pc = "spawned" THEN [blink EXCEPT !.pc = "top"] ELSE blink
    /\ UNCHANGED <<sensors, recvd, log, ctxAddr, tasks, bgLock, cells, dimming, display,
                   lcdLock, backlight, blinkChan, timer, waitDone, epoch, out, lcdDrv, blinkPair, clientVars>>

-----------------------------------------------------------------------------
(* Server::main_loop, one iteration of the receive loop *)

\* A postcard decoder that accepts any bytes as the request type.
Parses_Any(schema, body) == TRUE

\* postcard::from_bytes::<H>: the payload bytes decode as the request type.
Parses(schema, body) == body.schema = schema

\* The Option a handler unwraps to get its device handle.
SensorPresent(handler) ==
    CASE DeviceOf(handler) = "bargraph" -> sensors.bargraph
      [] DeviceOf(handler) = "lcd" -> sensors.lcd
      [] OTHER -> TRUE

\* The peer address a handler hands to its task: ctx.addr.unwrap().
CapturedAddr(d, ctx) == ctx

\* A handler that numbers every reply 0, as the client library numbers requests.
CapturedSeqNo_Zero(d) == 0

\* The seq_no and key a handler hands to its task: hdr.seq_no, hdr.key.
CapturedSeqNo(d) == d.seq_no

CapturedKey(d) == d.key

\* The first suspension point of a handler's task.
FirstPc(handler) == IF DeviceOf(handler) = "none" THEN "reply" ELSE "lock"

\* deserialize_detach: the task a handler spawns for datagram d.
SpawnedTask(d, handler, ctx) ==
    [pc |-> FirstPc(handler), handler |-> handler,
     seq_no |-> CapturedSeqNo(d), key |-> CapturedKey(d),
     addr |-> CapturedAddr(d, ctx), msg |-> d.body, req |-> d,
     ok |-> FALSE, wrote |-> FALSE, pushed |-> FALSE]

\* The datagram is long enough to hold a header.
HasHeader(d) == d.key # <<>>

\* dispatch.dispatch(&buf[..n]): Ok when the handler found for the key has
\* deserialized the payload and spawned its task, else the error returned;
\* Panic when the handler unwraps a device handle that is None.
DispatchResult(d) ==
    IF ~HasHeader(d) THEN "Parse"
    ELSE IF ~Registered(d.key) THEN "NoMatch"
    ELSE IF ~Parses(HandlerOf(d.key).req, d.body) THEN "Parse"
    ELSE IF ~SensorPresent(HandlerOf(d.key).handler) THEN "Panic"
    ELSE "Ok"

\* A receive loop that returns the error of dispatch with `?`.
KeepsServing_Propagate(result) == result = "Ok"

\* The match on the result of dispatch: an error is printed and the loop
\* goes on; a panic unwinds main_loop.
KeepsServing(result) == result # "Panic"

\* One iteration of the receive loop, for datagram d.
Dispatch(d) ==
    /\ recvd' = recvd + 1
    /\ ctxAddr' = d.src
    /\ log' = Append(log, DispatchResult(d))
    /\ serving' = KeepsServing(DispatchResult(d))
    /\ tasks' = IF DispatchResult(d) = "Ok"
                THEN [tasks EXCEPT ![recvd + 1] =
                        SpawnedTask(d, HandlerOf(d.key).handler, ctxAddr')]
                ELSE tasks
    /\ UNCHANGED <<boot, lcdDrv, blinkPair, sensors, bgLock, cells, dimming, display, lcdLock, backlight,
                   blinkChan, blink, timer, waitDone, epoch>>
    /\ out' = NoReply

Recv ==
    /\ serving
    /\ recvd < MaxDatagrams
    /\ \E d \in Datagrams : Dispatch(d)
    /\ UNCHANGED clientVars

-----------------------------------------------------------------------------
(* handlers::set_led, set_dimming, notify, ack, set_backlight, echo *)

\* handlers::set_dimming: the driver brightness of a request.
DimmingOf(arg) ==
    CASE arg = "Hi" -> "BRIGHTNESS_16_16"
      [] arg = "Lo" -> "BRIGHTNESS_3_16"

\* The driver call a bargraph handler makes inside unblock, on display buffer
\* buf with I2C outcome io.
DriverCall(handler, msg, buf, io) ==
    CASE handler = "set_led" -> set_led_no(buf, msg.num, msg.arg, io)
      [] handler = "notify" -> set_led_no(buf, msg.num, StatusColor(msg.arg), io)
      [] handler = "ack" ->
            IF msg.num # NoNum
            THEN set_led_no(buf, msg.num, "Off", io)
            ELSE clear_all(buf, io)
      [] handler = "set_dimming" -> [ok |-> io, cells |-> buf, wrote |-> TRUE]

\* A task that sends its reply before it pushes its event.
StepAfter_ReplyFirst(handler, pc) ==
    CASE pc = "lock" -> "drv"
      [] pc = "drv" -> "reply"
      [] pc = "reply" -> IF EventOf(handler) # "none" THEN "push" ELSE "done"
      [] pc = "push" -> "done"

\* The order of a task's steps after the point pc.
StepAfter(handler, pc) ==
    CASE pc = "lock" -> "drv"
      [] pc = "drv" -> IF EventOf(handler) # "none" THEN "push" ELSE "reply"
      [] pc = "push" -> "reply"
      [] pc = "reply" -> "done"

\* The response a task serializes.
ResponseOf(task) ==
    IF task.handler = "echo"
    THEN to_uppercase(task.msg.arg)
    ELSE IF task.ok THEN "Ok" ELSE "RequestError"

\* A task that reads the peer address from the context when it replies.
ReplyOf_CtxAddr(task, ctx) ==
    [to |-> ctx, seq_no |-> task.seq_no, key |-> task.key,
     body |-> IF task.handler = "echo"
              THEN to_uppercase(task.msg.arg)
              ELSE IF task.ok THEN "Ok" ELSE "RequestError",
     req |-> task.req, handler |-> task.handler, pushed |-> task.pushed]

\* to_slice_keyed(seq_no, key, &resp, buf) and sock.send_to(used, addr).
ReplyOf(task, ctx) ==
    [to |-> task.addr, seq_no |-> task.seq_no, key |-> task.key,
     body |-> ResponseOf(task), req |-> task.req, handler |-> task.handler,
     pushed |-> task.pushed]

Finished == [NoTask EXCEPT !.pc = "done"]

\* A Notify or Ack task that skips its push when the driver call failed.
Advance_PushOnOk(task) ==
    IF task.pc = "drv" /\ EventOf(task.handler) # "none" /\ ~task.ok
    THEN [task EXCEPT !.pc = "reply"]
    ELSE IF StepAfter(task.handler, task.pc) = "done"
    THEN Finished
    ELSE [task EXCEPT !.pc = StepAfter(task.handler, task.pc)]

Advance(task) ==
    IF StepAfter(task.handler, task.pc) = "done"
    THEN Finished
    ELSE [task EXCEPT !.pc = StepAfter(task.handler, task.pc)]

\* A closure that uses the device without taking its lock.
Acquire_NoLock(t) ==
    /\ tasks[t].pc = "lock"
    /\ IF DeviceOf(tasks[t].handler) = "bargraph"
       THEN /\ bgLock' = t
            /\ UNCHANGED lcdLock
       ELSE /\ lcdLock' = t
            /\ UNCHANGED bgLock
    /\ tasks' = [tasks EXCEPT ![t] = Advance(@)]
    /\ UNCHANGED <<serving, sensors, recvd, ctxAddr, cells, dimming, display, backlight,
                   blinkChan, blink, timer, waitDone, epoch>>
    /\ out' = NoReply
    /\ UNCHANGED <<log, boot, lcdDrv, blinkPair, clientVars>>

\* A fair mutex: the closures get the lock in the order of their requests.
Acquire_InOrder(t) ==
    /\ tasks[t].pc = "lock"
    /\ \A u \in 1..(t - 1) : tasks[u].pc # "lock"
    /\ IF DeviceOf(tasks[t].handler) = "bargraph"
       THEN /\ bgLock = 0
            /\ bgLock' = t
            /\ UNCHANGED lcdLock
       ELSE /\ lcdLock = 0
            /\ lcdLock' = t
            /\ UNCHANGED bgLock
    /\ tasks' = [tasks EXCEPT ![t] = Advance(@)]
    /\ UNCHANGED <<serving, sensors, recvd, ctxAddr, cells, dimming, display, backlight,
                   blinkChan, blink, timer, waitDone, epoch>>
    /\ out' = NoReply
    /\ UNCHANGED <<log, boot, lcdDrv, blinkPair, clientVars>>

\* bg.lock_arc_blocking() / lcd.lock_arc_blocking() on a blocking worker.
Acquire(t) ==
    /\ tasks[t].pc = "lock"
    /\ IF DeviceOf(tasks[t].handler) = "bargraph"
       THEN /\ bgLock = 0
            /\ bgLock' = t
            /\ UNCHANGED lcdLock
       ELSE /\ lcdLock = 0
            /\ lcdLock' = t
            /\ UNCHANGED bgLock
    /\ tasks' = [tasks EXCEPT ![t] = Advance(@)]
    /\ UNCHANGED <<serving, sensors, recvd, ctxAddr, cells, dimming, display, backlight,
                   blinkChan, blink, timer, waitDone, epoch>>
    /\ out' = NoReply
    /\ UNCHANGED <<log, boot, lcdDrv, blinkPair, clientVars>>

\* The driver call under the lock; the guard is dropped when the closure ends.
Drive(t) ==
    /\ tasks[t].pc = "drv"
    /\ \E io \in BOOLEAN :
        IF DeviceOf(tasks[t].handler) = "bargraph"
        THEN LET r == DriverCall(tasks[t].handler, tasks[t].msg, cells, io)
             IN  /\ bgLock = t
                 /\ bgLock' = 0
                 /\ cells' = r.cells
                 /\ dimming' = IF tasks[t].handler = "set_dimming"
                               THEN DimmingOf(tasks[t].msg.arg)
                               ELSE dimming
                 /\ tasks' = [tasks EXCEPT ![t] =
                                Advance([@ EXCEPT !.ok = r.ok, !.wrote = r.wrote])]
                 /\ UNCHANGED <<lcdLock, backlight>>
        ELSE /\ lcdLock = t
             /\ lcdLock' = 0
             /\ backlight' = tasks[t].msg.arg
             /\ tasks' = [tasks EXCEPT ![t] = Advance([@ EXCEPT !.ok = io, !.wrote = TRUE])]
             /\ UNCHANGED <<bgLock, cells, dimming>>
    /\ UNCHANGED <<serving, sensors, recvd, ctxAddr, display,
                   blinkChan, blink, timer, waitDone, epoch>>
    /\ out' = NoReply
    /\ UNCHANGED <<log, boot, lcdDrv, blinkPair, clientVars>>

\* A sender that coalesces: when the channel is full, the pending event is
\* replaced by the new one.
Push_Overwrite(t) ==
    /\ tasks[t].pc = "push"
    /\ blinkChan' = <<[led |-> EventOf(tasks[t].handler), num |-> tasks[t].msg.num,
                       ok |-> tasks[t].ok]>>
    /\ tasks' = [tasks EXCEPT ![t] = Advance([@ EXCEPT !.pushed = TRUE])]
    /\ UNCHANGED <<serving, sensors, recvd, ctxAddr, bgLock, cells, dimming, display,
                   lcdLock, backlight, blink, timer, waitDone, epoch>>
    /\ out' = NoReply
    /\ UNCHANGED <<log, boot, lcdDrv, blinkPair, clientVars>>

\* blink_send.send(BlinkInfo::LedSet | LedClear).await: suspends while the
\* channel is full.
Push(t) ==
    /\ tasks[t].pc = "push"
    /\ Len(blinkChan) < 1
    /\ blinkChan' = Append(blinkChan,
                           [led |-> EventOf(tasks[t].handler), num |-> tasks[t].msg.num,
                            ok |-> tasks[t].ok])
    /\ tasks' = [tasks EXCEPT ![t] = Advance([@ EXCEPT !.pushed = TRUE])]
    /\ UNCHANGED <<serving, sensors, recvd, ctxAddr, bgLock, cells, dimming, display,
                   lcdLock, backlight, blink, timer, waitDone, epoch>>
    /\ out' = NoReply
    /\ UNCHANGED <<log, boot, lcdDrv, blinkPair, clientVars>>

\* A task that unwraps the results of to_slice_keyed and send_to: a failure
\* panics on the executor and ends main_loop.
Reply_Unwrap(t) ==
    /\ tasks[t].pc = "reply"
    /\ \E sent \in BOOLEAN :
        /\ out' = IF sent THEN ReplyOf(tasks[t], ctxAddr) ELSE NoReply
        /\ serving' = (serving /\ sent)
    /\ tasks' = [tasks EXCEPT ![t] = Advance(@)]
    /\ UNCHANGED <<sensors, recvd, ctxAddr, bgLock, cells, dimming, display,
                   lcdLock, backlight, blinkChan, blink, timer, waitDone, epoch>>
    /\ UNCHANGED <<log, boot, lcdDrv, blinkPair, clientVars>>

\* A reply that is sent only when no closure of another task is on a worker:
\* the executor would run the closures itself.
Reply_AfterClosures(t) ==
    /\ tasks[t].pc = "reply"
    /\ \A u \in TaskIds \ {t} : tasks[u].pc \notin {"lock", "drv"}
    /\ \E sent \in BOOLEAN :
        out' = IF sent THEN ReplyOf(tasks[t], ctxAddr) ELSE NoReply
    /\ tasks' = [tasks EXCEPT ![t] = Advance(@)]
    /\ UNCHANGED <<serving, sensors, recvd, ctxAddr, bgLock, cells, dimming, display,
                   lcdLock, backlight, blinkChan, blink, timer, waitDone, epoch>>
    /\ UNCHANGED <<log, boot, lcdDrv, blinkPair, clientVars>>

\* to_slice_keyed and sock.send_to; a failure of either drops the reply.
Reply(t) ==
    /\ tasks[t].pc = "reply"
    /\ \E sent \in BOOLEAN :
        out' = IF sent THEN ReplyOf(tasks[t], ctxAddr) ELSE NoReply
    /\ tasks' = [tasks EXCEPT ![t] = Advance(@)]
    /\ UNCHANGED <<serving, sensors, recvd, ctxAddr, bgLock, cells, dimming, display,
                   lcdLock, backlight, blinkChan, blink, timer, waitDone, epoch>>
    /\ UNCHANGED <<log, boot, lcdDrv, blinkPair, clientVars>>

-----------------------------------------------------------------------------
(* background::blink and background::wait_then_send_done *)

\* A blinker that also runs a 60 s timer in Off.
TimerOf_OffTimed(state) ==
    [st |-> IF state = "Init" THEN "pending" ELSE "waiting",
     dur |-> IF state = "Off" THEN 60 ELSE DurationOf(state), stale |-> FALSE]

\* The timer subtask blink spawns for a state: future::pending() in Init and
\* Off, wait_then_send_done(duration) in Fast, Med and Slow.
TimerOf(state) ==
    [st |-> IF DurationOf(state) = 0 THEN "pending" ELSE "waiting",
     dur |-> DurationOf(state), stale |-> FALSE]

\* A blinker that leaves the timer subtask running when an event arrives.
Cancel_Forget(tm) == tm

\* curr_task.cancel(): the subtask never runs again.
Cancel(tm) == [tm EXCEPT !.st = "cancelled"]

\* A blinker that does not drain the timer-done channel.
Drain_Skip(ch) == ch

\* wait_done_recv.try_recv(): takes the message that is in the channel, if any.
Drain(ch) == IF Len(ch) > 0 THEN Tail(ch) ELSE ch

\* An event was consumed: what was started before it is stale from now on.
Stale(ch) == [i \in 1..Len(ch) |-> [ch[i] EXCEPT !.stale = TRUE]]

\* First poll of the blink task: state Init, curr_task = future::pending().
BlinkStart ==
    /\ blink.pc = "top"
    /\ blink' = [blink EXCEPT !.pc = "select"]
    /\ timer' = TimerOf(blink.state)
    /\ UNCHANGED <<serving, sensors, recvd, ctxAddr, tasks, bgLock, cells, dimming,
                   display, lcdLock, backlight, blinkChan, waitDone, epoch>>
    /\ out' = NoReply
    /\ UNCHANGED <<log, boot, lcdDrv, blinkPair, clientVars>>

\* bg.lock_arc_blocking() of the set_display closure, on a blocking worker.
BlinkAcquire ==
    /\ blink.pc = "lock"
    /\ bgLock = 0
    /\ bgLock' = Blinker
    /\ blink' = [blink EXCEPT !.pc = "drv"]
    /\ UNCHANGED <<serving, sensors, recvd, ctxAddr, tasks, cells, dimming, display,
                   lcdLock, backlight, blinkChan, timer, waitDone, epoch>>
    /\ out' = NoReply
    /\ UNCHANGED <<log, boot, lcdDrv, blinkPair, clientVars>>

\* A blinker that keeps the guard of the bargraph after set_display.
BlinkDisplay_KeepGuard ==
    /\ blink.pc = "drv"
    /\ bgLock = Blinker
    /\ display' = DisplayOf(blink.state)
    /\ epoch' = [epoch EXCEPT !.cmds =
                    Append(@, [mode |-> DisplayOf(blink.state), at |-> epoch.elapsed])]
    /\ blink' = [blink EXCEPT !.pc = "spawn"]
    /\ UNCHANGED <<serving, sensors, recvd, ctxAddr, tasks, bgLock, cells, dimming,
                   lcdLock, backlight, blinkChan, timer, waitDone>>
    /\ out' = NoReply
    /\ UNCHANGED <<log, boot, lcdDrv, blinkPair, clientVars>>

\* set_display(mode of the state); its result is ignored; the guard is dropped.
BlinkDisplay ==
    /\ blink.pc = "drv"
    /\ bgLock = Blinker
    /\ bgLock' = 0
    /\ display' = DisplayOf(blink.state)
    /\ epoch' = [epoch EXCEPT !.cmds =
                    Append(@, [mode |-> DisplayOf(blink.state), at |-> epoch.elapsed])]
    /\ blink' = [blink EXCEPT !.pc = "spawn"]
    /\ UNCHANGED <<serving, sensors, recvd, ctxAddr, tasks, cells, dimming,
                   lcdLock, backlight, blinkChan, timer, waitDone>>
    /\ out' = NoReply
    /\ UNCHANGED <<log, boot, lcdDrv, blinkPair, clientVars>>

\* curr_task = ex.spawn(...) after the unblock, then the select is awaited.
BlinkSpawn ==
    /\ blink.pc = "spawn"
    /\ timer' = TimerOf(blink.state)
    /\ blink' = [blink EXCEPT !.pc = "select", !.ev = NoEvent, !.prev = blink.state,
                              !.via = "none", !.tok = NoToken, !.drained = FALSE]
    /\ UNCHANGED <<serving, sensors, recvd, ctxAddr, tasks, bgLock, cells, dimming,
                   display, lcdLock, backlight, blinkChan, waitDone, epoch>>
    /\ out' = NoReply
    /\ UNCHANGED <<log, boot, lcdDrv, blinkPair, clientVars>>

\* wait_then_send_done: the Timer elapsed, done.send(()) (suspends while full).
TimerExpire ==
    /\ timer.st = "waiting"
    /\ Len(waitDone) < 1
    /\ waitDone' = Append(waitDone, [dur |-> timer.dur, stale |-> timer.stale])
    /\ timer' = [timer EXCEPT !.st = "finished"]
    /\ UNCHANGED <<serving, sensors, recvd, ctxAddr, tasks, bgLock, cells, dimming,
                   display, lcdLock, backlight, blinkChan, blink, epoch>>
    /\ out' = NoReply
    /\ UNCHANGED <<log, boot, lcdDrv, blinkPair, clientVars>>

\* select: FinishedFirst::Them, only the timer-done channel has a message.
\* The next state is entered and its set_display closure is queued.
BlinkSelectThem ==
    /\ blink.pc = "select"
    /\ blinkChan = <<>>
    /\ waitDone # <<>>
    /\ waitDone' = Tail(waitDone)
    /\ blink' = [blink EXCEPT !.state = OnTimerDone(blink.state), !.prev = blink.state,
                              !.via = "timer", !.tok = Head(waitDone), !.pc = "lock"]
    /\ epoch' = [epoch EXCEPT !.elapsed = @ + Head(waitDone).dur]
    /\ timer' = NoTimer
    /\ UNCHANGED <<serving, sensors, recvd, ctxAddr, tasks, bgLock, cells, dimming,
                   display, lcdLock, backlight, blinkChan>>
    /\ out' = NoReply
    /\ UNCHANGED <<log, boot, lcdDrv, blinkPair, clientVars>>

\* select: FinishedFirst::Us(Ok(led)), `or` polls the event channel first;
\* curr_task.cancel() is called and awaited.
BlinkSelectUs ==
    /\ blink.pc = "select"
    /\ blinkChan # <<>>
    /\ blinkChan' = Tail(blinkChan)
    /\ blink' = [blink EXCEPT !.ev = Head(blinkChan), !.pc = "drain"]
    /\ timer' = Cancel([timer EXCEPT !.stale = TRUE])
    /\ waitDone' = Stale(waitDone)
    /\ UNCHANGED <<serving, sensors, recvd, ctxAddr, tasks, bgLock, cells, dimming,
                   display, lcdLock, backlight, epoch>>
    /\ out' = NoReply
    /\ UNCHANGED <<log, boot, lcdDrv, blinkPair, clientVars>>

\* After the cancel: try_recv drains the timer-done channel, the event sets
\* the state, and the set_display closure of the new state is queued.
BlinkDrain ==
    /\ blink.pc = "drain"
    /\ waitDone' = Drain(waitDone)
    /\ blink' = [blink EXCEPT !.state = OnEvent(blink.state, blink.ev.led), !.prev = blink.state,
                              !.via = blink.ev.led, !.tok = NoToken, !.pc = "lock",
                              !.drained = (waitDone # <<>>)]
    /\ epoch' = [led |-> blink.ev.led, from |-> blink.state, cmds |-> <<>>, elapsed |-> 0]
    /\ timer' = IF timer.st = "cancelled" THEN NoTimer ELSE timer
    /\ UNCHANGED <<serving, sensors, recvd, ctxAddr, tasks, bgLock, cells, dimming,
                   display, lcdLock, backlight, blinkChan>>
    /\ out' = NoReply
    /\ UNCHANGED <<log, boot, lcdDrv, blinkPair, clientVars>>

-----------------------------------------------------------------------------

Next ==
    \/ Recv
    \/ \E t \in TaskIds : Acquire(t)
    \/ \E t \in TaskIds : Drive(t)
    \/ \E t \in TaskIds : Push(t)
    \/ \E t \in TaskIds : Reply(t)
    \/ BlinkStart
    \/ BlinkAcquire
    \/ BlinkDisplay
    \/ BlinkSpawn
    \/ TimerExpire
    \/ BlinkSelectThem
    \/ BlinkSelectUs
    \/ BlinkDrain

Spec == Init /\ [][Next]_vars

-----------------------------------------------------------------------------
(* The server receiving Echo, Notify and Ack requests only *)

EventDatagrams ==
    {Datagram("peerA", 0, KeyFor("debug/echo", "Echo"), Payload("Echo", NoNum, EchoText)),
     Datagram("peerB", 5, KeyFor("led/notify", "Notify"), Payload("Notify", 1, "Warning")),
     Datagram("peerB", 5, KeyFor("led/ack", "Ack"), Payload("Ack", 1, "-"))}

\* One iteration of the receive loop, for an Echo, a Notify or an Ack.
RecvEvents ==
    /\ serving
    /\ recvd < MaxTasks
    /\ \E d \in EventDatagrams : Dispatch(d)
    /\ UNCHANGED clientVars

NextEvents ==
    \/ RecvEvents
    \/ \E t \in TaskIds : Acquire(t)
    \/ \E t \in TaskIds : Drive(t)
    \/ \E t \in TaskIds : Push(t)
    \/ \E t \in TaskIds : Reply(t)
    \/ BlinkStart
    \/ BlinkAcquire
    \/ BlinkDisplay
    \/ BlinkSpawn
    \/ TimerExpire
    \/ BlinkSelectThem
    \/ BlinkSelectUs
    \/ BlinkDrain

SpecEvents == Init /\ [][NextEvents]_vars

-----------------------------------------------------------------------------
(* The server receiving SetLed requests for every LED number and color *)

LedColors == {"Off", "Green", "Red", "Yellow"}

\* LED numbers 0..23 and one number that set_led_no rejects.
LedNums == 0..24

LedDatagrams ==
    {Datagram("peerB", 7, KeyFor("led/set", "SetLed"), Payload("SetLed", n, c)) :
        n \in LedNums, c \in LedColors}

RecvLed ==
    /\ serving
    /\ recvd < MaxDatagrams
    /\ \E d \in LedDatagrams : Dispatch(d)
    /\ UNCHANGED clientVars

NextLed ==
    \/ RecvLed
    \/ \E t \in TaskIds : Acquire(t)
    \/ \E t \in TaskIds : Drive(t)
    \/ \E t \in TaskIds : Reply(t)

SpecLed == Init /\ [][NextLed]_vars

-----------------------------------------------------------------------------
(* The two blink tasks on the same sequence of events and timer expiries *)

\* A BlinkInfo is received by both tasks.
PairInfo ==
    /\ Len(blinkPair.inputs) < MaxInputs
    /\ \E bi \in {"LedSet", "LedClear"} :
        LET old == OnBlinkInfo(blinkPair.at, bi)
            new == OnSelect(blinkPair.state, bi)
        IN  blinkPair' = [at |-> old.at, sent |-> blinkPair.sent \o old.cmds,
                          state |-> new.state, shown |-> blinkPair.shown \o new.cmds,
                          inputs |-> Append(blinkPair.inputs, bi)]
    /\ UNCHANGED <<boot, lcdDrv, serving, sensors, recvd, log, ctxAddr, tasks, bgLock, cells,
                   dimming, display, lcdLock, backlight, blinkChan, blink, timer, waitDone,
                   epoch, out, clientVars>>

\* The period that is running elapses: the sleep of blink_loop, and the timer
\* subtask of the state machine.
PairTimer ==
    /\ Len(blinkPair.inputs) < MaxInputs
    /\ blinkPair.at # "recv" \/ DurationOf(blinkPair.state) > 0
    /\ LET old == IF blinkPair.at # "recv"
                  THEN OnSleepDone(blinkPair.at)
                  ELSE [at |-> blinkPair.at, cmds |-> <<>>]
           new == IF DurationOf(blinkPair.state) > 0
                  THEN OnSelect(blinkPair.state, "TimerDone")
                  ELSE [state |-> blinkPair.state, cmds |-> <<>>]
       IN  blinkPair' = [at |-> old.at, sent |-> blinkPair.sent \o old.cmds,
                         state |-> new.state, shown |-> blinkPair.shown \o new.cmds,
                         inputs |-> Append(blinkPair.inputs, "TimerDone")]
    /\ UNCHANGED <<boot, lcdDrv, serving, sensors, recvd, log, ctxAddr, tasks, bgLock, cells,
                   dimming, display, lcdLock, backlight, blinkChan, blink, timer, waitDone,
                   epoch, out, clientVars>>

NextPair == PairInfo \/ PairTimer

SpecPair == Init /\ [][NextPair]_vars

-----------------------------------------------------------------------------
(* The server receiving Echo, Notify, Ack and SetBacklight requests, with   *)
(* the executor and the blocking workers running whatever can run           *)

TaskDatagrams ==
    EventDatagrams
    \cup {Datagram("peerA", 3, KeyFor("lcd/backlight", "SetBacklight"),
                   Payload("SetBacklight", NoNum, "Off"))}

RecvTasks ==
    /\ serving
    /\ recvd < MaxDatagrams
    /\ \E d \in TaskDatagrams : Dispatch(d)
    /\ UNCHANGED clientVars

NextTasks ==
    \/ RecvTasks
    \/ \E t \in TaskIds : Acquire(t)
    \/ \E t \in TaskIds : Drive(t)
    \/ \E t \in TaskIds : Push(t)
    \/ \E t \in TaskIds : Reply(t)
    \/ BlinkStart
    \/ BlinkAcquire
    \/ BlinkDisplay
    \/ BlinkSpawn
    \/ TimerExpire
    \/ BlinkSelectThem
    \/ BlinkSelectUs
    \/ BlinkDrain

\* The executor polls every task that can run, every closure handed to
\* unblock gets a worker and its driver call returns, and send_to completes.
\* Datagrams and timer expiries need not come.
SpecTasksLive ==
    /\ Init
    /\ [][NextTasks]_vars
    /\ \A t \in TaskIds :
        WF_vars(Acquire(t)) /\ WF_vars(Drive(t)) /\ WF_vars(Push(t)) /\ WF_vars(Reply(t))
    /\ WF_vars(BlinkStart \/ BlinkAcquire \/ BlinkDisplay \/ BlinkSpawn
                \/ BlinkSelectUs \/ BlinkDrain)

-----------------------------------------------------------------------------
(* Lcd::write_msg applied to the texts of LcdMsgs, one call after another *)

NextLcd == WriteMsgCall \/ WriteMsgClear \/ WriteMsgHome \/ WriteMsgChar \/ WriteMsgReturn

SpecLcd == Init /\ [][NextLcd]_vars

-----------------------------------------------------------------------------
(* The server receiving notifications for two LEDs and the Ack of one *)

AckDatagrams ==
    {Datagram("peerB", 7, KeyFor("led/notify", "Notify"), Payload("Notify", 1, "Warning")),
     Datagram("peerB", 7, KeyFor("led/notify", "Notify"), Payload("Notify", 2, "Error")),
     Datagram("peerB", 7, KeyFor("led/ack", "Ack"), Payload("Ack", 1, "-"))}

RecvAck ==
    /\ serving
    /\ recvd < MaxTasks
    /\ \E d \in AckDatagrams : Dispatch(d)
    /\ UNCHANGED clientVars

NextAck ==
    \/ RecvAck
    \/ \E t \in TaskIds : Acquire(t)
    \/ \E t \in TaskIds : Drive(t)
    \/ \E t \in TaskIds : Push(t)
    \/ \E t \in TaskIds : Reply(t)
    \/ BlinkStart
    \/ BlinkAcquire
    \/ BlinkDisplay
    \/ BlinkSpawn
    \/ TimerExpire
    \/ BlinkSelectThem
    \/ BlinkSelectUs
    \/ BlinkDrain

SpecAck == Init /\ [][NextAck]_vars

\* One iteration of the receive loop of a server that has just started.
RecvBoot ==
    /\ serving
    /\ recvd < MaxBootDatagrams
    /\ \E d \in EventDatagrams : Dispatch(d)
    /\ UNCHANGED clientVars

NextBoot ==
    \/ BootLock
    \/ BootInit
    \/ BootContext
    \/ BootRegister
    \/ BootServe
    \/ RecvBoot
    \/ \E t \in TaskIds : Acquire(t)
    \/ \E t \in TaskIds : Drive(t)
    \/ \E t \in TaskIds : Push(t)
    \/ \E t \in TaskIds : Reply(t)
    \/ BlinkStart
    \/ BlinkAcquire
    \/ BlinkDisplay
    \/ BlinkSpawn
    \/ TimerExpire
    \/ BlinkSelectThem
    \/ BlinkSelectUs
    \/ BlinkDrain

SpecBoot == InitBoot /\ [][NextBoot]_vars

\* The Notify and the Ack of EventDatagrams: the requests whose tasks push.
PushDatagrams ==
    {d \in EventDatagrams : EventOf(HandlerOf(d.key).handler) # "none"}

\* One iteration of the receive loop, for a Notify or an Ack.
RecvPushes ==
    /\ serving
    /\ recvd < MaxDatagrams
    /\ \E d \in PushDatagrams : Dispatch(d)
    /\ UNCHANGED clientVars

NextPushes ==
    \/ RecvPushes
    \/ \E t \in TaskIds : Acquire(t)
    \/ \E t \in TaskIds : Drive(t)
    \/ \E t \in TaskIds : Push(t)
    \/ \E t \in TaskIds : Reply(t)
    \/ BlinkStart
    \/ BlinkAcquire
    \/ BlinkDisplay
    \/ BlinkSpawn
    \/ TimerExpire
    \/ BlinkSelectThem
    \/ BlinkSelectUs
    \/ BlinkDrain

\* The executor polls every task that can run, and every closure handed to
\* unblock gets a worker: no task step and no blinker step waits forever
\* while it can be taken. Datagrams and timer expiries need not come.
SpecPushesLive ==
    /\ Init
    /\ [][NextPushes]_vars
    /\ \A t \in TaskIds : WF_vars(Acquire(t)) /\ WF_vars(Drive(t)) /\ WF_vars(Push(t))
    /\ WF_vars(BlinkStart \/ BlinkAcquire \/ BlinkDisplay \/ BlinkSpawn
                \/ BlinkSelectUs \/ BlinkDrain)

-----------------------------------------------------------------------------
(* Client::raw, with a server that drops or answers each datagram *)

\* An endpoint the server has no handler for (bin/echo.rs).
BadPathEndpoint == [path |-> "bad/path", req |-> "Echo", handler |-> "-"]

\* The endpoints the client calls, with their request schemas.
ClientEndpoints == {NotifyEndpoint, EchoEndpoint, BadPathEndpoint}

\* The payload the client sends with a call of the endpoint with this key.
ClientPayload(key) ==
    IF key = EndpointKey(NotifyEndpoint)
    THEN Payload("Notify", 1, "Error")
    ELSE IF key = EndpointKey(AckEndpoint)
    THEN Payload("Ack", 1, "-")
    ELSE Payload("Echo", NoNum, EchoText)

\* connect(addr, timeout, retries) with a read timeout, and no call made yet.
InitClient ==
    /\ InitServer([bargraph |-> TRUE, lcd |-> TRUE])
    /\ conf \in {[retries |-> r, sock |-> "Some"] : r \in 0..MaxRetries}
    /\ cl = ClientIdle
    /\ net = {}
    /\ inbox = <<>>

\* let key = Key::for_path::<PRQ>(endpoint); let mut retry = 0;
CallOf(endpoints) ==
    /\ cl.pc \in {"idle", "done"}
    /\ cl.call < MaxCalls
    /\ \E e \in endpoints :
        cl' = [ClientIdle EXCEPT !.pc = "send", !.call = cl.call + 1,
                                 !.key = KeyFor(e.path, e.req)]
    /\ UNCHANGED <<conf, net, inbox, serverVars>>

Call == CallOf(ClientEndpoints)

\* The number under which the datagram sent after `sent` others of the call is
\* followed; the datagrams from the MaxSends-th on are followed as one.
IdxOf(sent) == IF sent + 1 < MaxSends THEN sent + 1 ELSE MaxSends

\* Top of the while loop: to_slice_keyed(0, key, ..) and sock.send(req).
ClientSend ==
    /\ cl.pc = "send"
    /\ conf.sock = "Some"
    /\ cl.retry <= conf.retries
    /\ net' = net \cup {[call |-> cl.call, idx |-> IdxOf(cl.sent), seq_no |-> 0, key |-> cl.key]}
    /\ cl' = [cl EXCEPT !.pc = "recv", !.sent = @ + 1, !.fate[IdxOf(cl.sent)] = "flight"]
    /\ UNCHANGED <<conf, inbox, serverVars>>

\* A loop that retries on every timeout.
OnWouldBlock_Always(retry, retries) ==
    [pc |-> "send", retry |-> (retry + 1) % 256, res |-> NoResult]

\* A loop that gives up one timeout early.
OnWouldBlock_GiveUpEarly(retry, retries) ==
    IF retry + 1 < retries
    THEN [pc |-> "send", retry |-> (retry + 1) % 256, res |-> NoResult]
    ELSE [pc |-> "done", retry |-> retry, res |-> [kind |-> "NoResponse", retries |-> 0]]

\* The loop's match on a WouldBlock error: the retry counter (a u8) after it,
\* or NoResponse.
OnWouldBlock(retry, retries) ==
    IF retry < retries
    THEN [pc |-> "send", retry |-> (retry + 1) % 256, res |-> NoResult]
    ELSE [pc |-> "done", retry |-> retry, res |-> [kind |-> "NoResponse", retries |-> 0]]

\* sock.recv(buf) fails with WouldBlock: nothing arrived within the read timeout.
ClientTimeout ==
    /\ cl.pc = "recv"
    /\ inbox = <<>>
    /\ LET nxt == OnWouldBlock(cl.retry, conf.retries)
       IN  cl' = [cl EXCEPT !.pc = nxt.pc, !.retry = nxt.retry, !.res = nxt.res,
                            !.io = "WouldBlock"]
    /\ UNCHANGED <<conf, net, inbox, serverVars>>

\* A header check that compares the key only.
OnReply_KeyOnly(hdr, key, retry) ==
    IF hdr.key = key
    THEN [kind |-> "Ok", retries |-> retry]
    ELSE [kind |-> "BadResponse", retries |-> 0, seq_no |-> hdr.seq_no, key |-> hdr.key]

\* After the loop: extract_header_from_bytes and the comparison with (0, key).
OnReply(hdr, key, retry) ==
    IF hdr.seq_no = 0 /\ hdr.key = key
    THEN [kind |-> "Ok", retries |-> retry]
    ELSE [kind |-> "BadResponse", retries |-> 0, seq_no |-> hdr.seq_no, key |-> hdr.key]

\* sock.recv(buf) returns a datagram: break, then the header check.
ClientRecv ==
    /\ cl.pc = "recv"
    /\ inbox # <<>>
    /\ inbox' = Tail(inbox)
    /\ cl' = [cl EXCEPT !.pc = "done",
                        !.got = <<Head(inbox).call, Head(inbox).idx>>,
                        !.res = OnReply(Head(inbox), cl.key, cl.retry)]
    /\ UNCHANGED <<conf, net, serverVars>>

\* What happened to datagram d, recorded for the call in progress.
Fate(d, what) ==
    IF d.call = cl.call THEN [cl EXCEPT !.fate[d.idx] = what] ELSE cl

\* A request datagram is lost, or the server sends no reply to it.
ServerDrop ==
    /\ \E d \in net :
        /\ net' = net \ {d}
        /\ cl' = Fate(d, "dropped")
    /\ UNCHANGED <<conf, inbox, serverVars>>

\* The server's reply to a request datagram (same seq_no and key) reaches the
\* client's socket, whose receive buffer has room for it.
ServerAnswer ==
    /\ Len(inbox) < MaxInbox
    /\ \E d \in net :
        /\ Registered(d.key)
        /\ net' = net \ {d}
        /\ inbox' = Append(inbox, d)
        /\ cl' = Fate(d, "answered")
    /\ UNCHANGED <<conf, serverVars>>

\* A seq_no other than the one every request of the client carries.
OtherSeqNo == 1

\* A reply whose header was altered reaches the client's socket.
ServerAnswerMutated ==
    /\ Len(inbox) < MaxInbox
    /\ \E d \in net :
        /\ Registered(d.key)
        /\ net' = net \ {d}
        /\ inbox' = Append(inbox, [d EXCEPT !.seq_no = OtherSeqNo])
        /\ cl' = Fate(d, "mutated")
    /\ UNCHANGED <<conf, serverVars>>

NextClient ==
    \/ Call
    \/ ClientSend
    \/ ClientTimeout
    \/ ClientRecv
    \/ ServerDrop
    \/ ServerAnswer
    \/ ServerAnswerMutated

SpecClient == InitClient /\ [][NextClient]_vars

-----------------------------------------------------------------------------
(* Client::raw on a socket whose send and recv can fail, and on a client    *)
(* that never connected                                                     *)

\* Client::new() (no socket, retries 0) or connect(addr, timeout, retries).
InitClientErr ==
    /\ InitServer([bargraph |-> TRUE, lcd |-> TRUE])
    /\ conf \in {[retries |-> 0, sock |-> "None"]}
                \cup {[retries |-> r, sock |-> "Some"] : r \in 0..MaxRetries}
    /\ cl = ClientIdle
    /\ net = {}
    /\ inbox = <<>>

\* self.sock.as_mut().ok_or(Error::NotConnected)? before the send.
ClientNotConnected ==
    /\ cl.pc = "send"
    /\ conf.sock = "None"
    /\ cl' = [cl EXCEPT !.pc = "done", !.res = [kind |-> "NotConnected", retries |-> 0]]
    /\ UNCHANGED <<conf, net, inbox, serverVars>>

\* sock.send(req)? fails: the io::Error becomes Error::Io.
ClientSendFail ==
    /\ cl.pc = "send"
    /\ conf.sock = "Some"
    /\ cl.retry <= conf.retries
    /\ cl' = [cl EXCEPT !.pc = "done", !.res = [kind |-> "Io", retries |-> 0],
                        !.io = "SendError"]
    /\ UNCHANGED <<conf, net, inbox, serverVars>>

\* Error kinds of recv other than the one of the read timeout.
OtherErrorKinds == {"ConnectionRefused", "Interrupted"}

\* A loop that treats every error of recv as a timeout.
OnRecvError_RetryAll(kind, retry, retries) == OnWouldBlock(retry, retries)

\* The loop's match on the kind of the error of recv.
OnRecvError(kind, retry, retries) ==
    IF kind = "WouldBlock"
    THEN OnWouldBlock(retry, retries)
    ELSE [pc |-> "done", retry |-> retry, res |-> [kind |-> "Io", retries |-> 0]]

\* sock.recv(buf) fails with an error that is not the read timeout.
ClientRecvFail ==
    /\ cl.pc = "recv"
    /\ \E kind \in OtherErrorKinds :
        LET nxt == OnRecvError(kind, cl.retry, conf.retries)
        IN  cl' = [cl EXCEPT !.pc = nxt.pc, !.retry = nxt.retry, !.res = nxt.res,
                             !.io = kind]
    /\ UNCHANGED <<conf, net, inbox, serverVars>>

NextClientErr ==
    \/ Call
    \/ ClientNotConnected
    \/ ClientSend
    \/ ClientSendFail
    \/ ClientTimeout
    \/ ClientRecv
    \/ ClientRecvFail
    \/ ServerDrop
    \/ ServerAnswer

SpecClientErr == InitClientErr /\ [][NextClientErr]_vars

-----------------------------------------------------------------------------
(* The client calling the server: its datagrams are the ones main_loop      *)
(* receives, and the replies of the tasks are the ones its socket receives. *)

ClientAddr == "peerA"

\* Datagram d of the client as recv_from returns it.
OnWire(d) ==
    [src |-> ClientAddr, seq_no |-> d.seq_no, key |-> d.key, body |-> ClientPayload(d.key),
     call |-> d.call, idx |-> d.idx]

\* One iteration of the receive loop, for a datagram of the client.
RecvNet ==
    /\ serving
    /\ recvd < MaxDatagrams
    /\ \E d \in net :
        /\ Dispatch(OnWire(d))
        /\ net' = net \ {d}
        /\ cl' = Fate(d, "received")
    /\ UNCHANGED <<conf, inbox>>

\* The reply a task has just sent to the client reaches the client's socket.
Deliver ==
    /\ out # NoReply
    /\ out.to = ClientAddr
    /\ Len(inbox) < MaxInbox
    /\ inbox' = Append(inbox, [call |-> out.req.call, idx |-> out.req.idx,
                               seq_no |-> out.seq_no, key |-> out.key])
    /\ cl' = Fate(out.req, "answered")
    /\ out' = NoReply
    /\ UNCHANGED <<boot, lcdDrv, blinkPair, serving, sensors, recvd, log, ctxAddr, tasks, bgLock, cells, dimming,
                   display, lcdLock, backlight, blinkChan, blink, timer, waitDone, epoch>>
    /\ UNCHANGED <<conf, net>>

\* Client::echo, and a call of the endpoint the server does not have.
CallEcho == CallOf({EchoEndpoint, BadPathEndpoint})

NextServe ==
    \/ CallEcho
    \/ ClientSend
    \/ ClientTimeout
    \/ ClientRecv
    \/ ServerDrop
    \/ RecvNet
    \/ \E t \in TaskIds : Reply(t)
    \/ Deliver

SpecServe == InitClient /\ [][NextServe]_vars

\* Client::notify.
CallNotify == CallOf({NotifyEndpoint})

\* The client calling led/notify: the server runs the tasks of its datagrams
\* and the blinker takes their events. The timers of the blinker (60 s and
\* more) do not expire while the calls are followed.
NextServeOps ==
    \/ CallNotify
    \/ ClientSend
    \/ ClientTimeout
    \/ ClientRecv
    \/ ServerDrop
    \/ RecvNet
    \/ \E t \in TaskIds : Acquire(t)
    \/ \E t \in TaskIds : Drive(t)
    \/ \E t \in TaskIds : Push(t)
    \/ \E t \in TaskIds : Reply(t)
    \/ Deliver
    \/ BlinkStart
    \/ BlinkAcquire
    \/ BlinkDisplay
    \/ BlinkSpawn
    \/ BlinkSelectUs
    \/ BlinkDrain

SpecServeOps == InitClient /\ [][NextServeOps]_vars

\* Client::ack.
CallAck == CallOf({AckEndpoint})

\* The client raises LED 1 with notify and then acknowledges it with ack.
NotifyThenAck ==
    \/ cl.call = 0 /\ CallNotify
    \/ cl.call = 1 /\ CallAck

\* The client calling led/notify and then led/ack, under the same scheduling as
\* NextServeOps.
NextNotifyAck ==
    \/ NotifyThenAck
    \/ ClientSend
    \/ ClientTimeout
    \/ ClientRecv
    \/ ServerDrop
    \/ RecvNet
    \/ \E t \in TaskIds : Acquire(t)
    \/ \E t \in TaskIds : Drive(t)
    \/ \E t \in TaskIds : Push(t)
    \/ \E t \in TaskIds : Reply(t)
    \/ Deliver
    \/ BlinkStart
    \/ BlinkAcquire
    \/ BlinkDisplay
    \/ BlinkSpawn
    \/ BlinkSelectUs
    \/ BlinkDrain

SpecNotifyAck == InitClient /\ [][NextNotifyAck]_vars

\* connect(addr, timeout, u8::MAX), before the last call that is followed.
InitClientMax ==
    /\ InitServer([bargraph |-> TRUE, lcd |-> TRUE])
    /\ conf = [retries |-> 255, sock |-> "Some"]
    /\ cl = [ClientIdle EXCEPT !.call = MaxCalls - 1]
    /\ net = {}
    /\ inbox = <<>>

\* The client thread runs, and with a read timeout set recv returns: with a
\* datagram, or with WouldBlock once the timeout has elapsed.
SpecClientLive ==
    /\ (InitClient \/ InitClientMax)
    /\ [][NextClient]_vars
    /\ WF_vars(ClientSend)
    /\ WF_vars(ClientTimeout \/ ClientRecv)

-----------------------------------------------------------------------------
(* Properties of the server *)

Live(t) == tasks[t].pc \notin {"none", "done"}

\* C1: every response datagram the server sends carries the seq_no and the key
\* of the request datagram that elicited it.
C1_ReplyEchoesHeader ==
    out # NoReply => out.seq_no = out.req.seq_no /\ out.key = out.req.key

\* A reply is sent while a request with another seq_no and key is still pending.
C1_Witness ==
    /\ out # NoReply
    /\ \E t \in TaskIds :
        Live(t) /\ tasks[t].seq_no # out.seq_no /\ tasks[t].key # out.key

\* C2: each reply is sent to the source address of the datagram that elicited
\* it, whatever the context's current peer address is by then.
C2_ReplyToSource ==
    out # NoReply => out.to = out.req.src

\* A reply is sent after a datagram from another address overwrote Context.addr.
C2_Witness ==
    out # NoReply /\ ctxAddr # out.to

\* C3: in every blinker state a consumed LedSet moves the blinker to Fast and a
\* consumed LedClear moves it to Off.
C3_EventSetsState ==
    /\ blink.via = "LedSet" => blink.state = "Fast"
    /\ blink.via = "LedClear" => blink.state = "Off"

\* A LedSet was consumed in Slow.
C3_Witness ==
    blink.via = "LedSet" /\ blink.prev = "Slow" /\ blink.state = "Fast"

Progression ==
    <<[mode |-> "TWO_HZ", at |-> 0], [mode |-> "ONE_HZ", at |-> 60],
      [mode |-> "HALF_HZ", at |-> 360], [mode |-> "ON", at |-> 1260]>>

ProgressionStates == <<"Fast", "Med", "Slow", "Off">>

\* C4: after a LedSet consumed in Off and with no further event, the blinker goes
\* Fast, Med, Slow, Off, one step per timer expiry (60 s, 300 s, 900 s), issues
\* 2 Hz, 1 Hz, 0.5 Hz and steady On in that order (at 0 s, 60 s, 360 s, 1260 s
\* of timer time), and stays in Off: no timer runs and no timer-done message is
\* left.
C4_Progression ==
    (epoch.led = "LedSet" /\ epoch.from = "Off") =>
        LET n == Len(epoch.cmds)
            issued == blink.pc \in {"spawn", "select", "drain"}
        IN  /\ n <= 4
            /\ epoch.cmds = SubSeq(Progression, 1, n)
            /\ issued => n >= 1 /\ blink.state = ProgressionStates[n]
            /\ ~issued => n <= 3 /\ blink.state = ProgressionStates[n + 1]
            /\ blink.via = "timer" => blink.tok.dur = DurationOf(blink.prev)
            /\ (n = 4 /\ blink.pc = "select") =>
                    timer.st = "pending" /\ waitDone = <<>>

\* The whole progression has run and the blinker waits in Off.
C4_Witness ==
    /\ epoch.led = "LedSet"
    /\ epoch.from = "Off"
    /\ Len(epoch.cmds) = 4
    /\ blink.state = "Off"
    /\ blink.pc = "select"

\* C5: after the blinker consumed an event, a timer started before that event
\* causes no transition: the old subtask never posts, a done-message it had
\* posted is gone before the next select, and a timer transition is always made
\* by the timer of the state it leaves (60 s for Fast).
C5_NoStaleTimer ==
    /\ blink.via = "timer" =>
            ~blink.tok.stale /\ blink.tok.dur = DurationOf(blink.prev)
    /\ blink.pc # "drain" => \A i \in 1..Len(waitDone) : ~waitDone[i].stale
    /\ timer.stale => timer.st # "waiting"

\* A LedSet was consumed in Fast, Med or Slow when the old timer had already
\* posted its done-message, and the message was drained.
C5_Witness ==
    /\ blink.via = "LedSet"
    /\ blink.prev \in {"Fast", "Med", "Slow"}
    /\ blink.drained
    /\ waitDone = <<>>

HasLedNum(handler, msg) ==
    handler \in {"set_led", "notify", "ack"} /\ msg.num # NoNum

\* C6: a SetLed, Notify or Ack whose LED number is greater than 23 is answered
\* with RequestError and causes no write to the bargraph hardware: its driver
\* call writes nothing, and no display mode is set because of it.
C6_OutOfRangeNoWrite ==
    /\ \A t \in TaskIds :
        (Live(t) /\ tasks[t].pc \in {"push", "reply"}
            /\ HasLedNum(tasks[t].handler, tasks[t].msg) /\ tasks[t].msg.num > 23)
        => ~tasks[t].ok /\ ~tasks[t].wrote
    /\ (out # NoReply /\ HasLedNum(out.handler, out.req.body) /\ out.req.body.num > 23)
        => out.body = "RequestError"
    /\ ~(blink.pc = "spawn" /\ blink.ev.led # "none" /\ blink.ev.num > 23)

\* C7 as claimed: the reply of a Notify or Ack is sent before its event is pushed.
C7_ReplyBeforePush ==
    (out # NoReply /\ out.handler \in {"notify", "ack"}) => ~out.pushed

\* C7 as amended: the event of a Notify or Ack is pushed into the blinker
\* channel before its reply is sent.
C7_PushBeforeReply ==
    (out # NoReply /\ out.handler \in {"notify", "ack"}) => out.pushed

\* The reply of a Notify goes out.
C7_Witness ==
    out # NoReply /\ out.handler = "notify" /\ out.pushed

ColorOfStatus == [Ok |-> "Green", Warning |-> "Yellow", Error |-> "Red"]

\* The step in which task t makes its driver call.
Drove(t) == tasks[t].pc = "drv" /\ tasks'[t].pc # "drv"

\* The step in which task t pushes its event.
Pushed(t) == tasks[t].pc = "push" /\ tasks'[t].pc # "push"

\* C8: the driver call of a Notify{num, status} with num in 0..23 leaves LED num
\* Green for Ok, Yellow for Warning and Red for Error; the event it then pushes
\* is LedSet, and the blinker that consumes a LedSet enters Fast.
C8_NotifyColorThenFast ==
    [][/\ \A t \in TaskIds :
            (Drove(t) /\ tasks[t].handler = "notify" /\ tasks[t].msg.num \in 0..23)
            => /\ LedColorOf(cells', tasks[t].msg.num) = ColorOfStatus[tasks[t].msg.arg]
               /\ tasks'[t].pc = "push"
       /\ \A t \in TaskIds :
            (Pushed(t) /\ tasks[t].handler = "notify")
            => blinkChan'[Len(blinkChan')].led = "LedSet"
       /\ (blink.pc = "drain" /\ blink'.pc # "drain" /\ blink.ev.led = "LedSet")
            => blink'.state = "Fast"]_vars

\* The blinker entered Fast for a Notify{1, ...} and LED 1 is yellow.
C8_Witness ==
    /\ blink.via = "LedSet"
    /\ blink.state = "Fast"
    /\ blink.ev.num = 1
    /\ LedColorOf(cells, 1) = "Yellow"

AllLeds == 0..23

\* C9: the driver call of Ack{num = Some(k)}, k in 0..23, leaves LED k Off and
\* every other LED as it was; that of Ack{num = None} leaves all 24 LEDs Off; the
\* event the task then pushes is LedClear.
C9_AckClears ==
    [][/\ \A t \in TaskIds :
            (Drove(t) /\ tasks[t].handler = "ack")
            => /\ tasks[t].msg.num \in AllLeds =>
                    /\ LedColorOf(cells', tasks[t].msg.num) = "Off"
                    /\ \A n \in AllLeds \ {tasks[t].msg.num} :
                            LedColorOf(cells', n) = LedColorOf(cells, n)
               /\ tasks[t].msg.num = NoNum =>
                    \A n \in AllLeds : LedColorOf(cells', n) = "Off"
               /\ tasks'[t].pc = "push"
       /\ \A t \in TaskIds :
            (Pushed(t) /\ tasks[t].handler = "ack")
            => blinkChan'[Len(blinkChan')].led = "LedClear"]_vars

\* An Ack{Some(1)} has made its driver call and LED 13 is still red.
C9_Witness ==
    \E t \in TaskIds :
        /\ tasks[t].handler = "ack"
        /\ tasks[t].pc = "push"
        /\ tasks[t].msg.num = 1
        /\ tasks[t].wrote
        /\ LedColorOf(cells, 13) = "Red"

-----------------------------------------------------------------------------
(* Properties of the client *)

\* The server dropped the first k datagrams of the call in progress.
DroppedFirst(k) == \A i \in 1..k : cl.fate[i] = "dropped"

\* C10: when the server drops the first k datagrams of a call and the client
\* receives the answer to the next one within the read timeout (it has sent
\* no further datagram), the call returns Ok with retries = k, and
\* k <= configured retries; when the server drops all the datagrams of a call
\* and nothing is received, the call has sent retries + 1 datagrams and
\* returns NoResponse.
C10_RetryCounter ==
    cl.pc = "done" =>
        /\ \A k \in 0..(MaxSends - 1) :
            (/\ DroppedFirst(k)
             /\ cl.fate[k + 1] = "answered"
             /\ cl.sent = k + 1
             /\ cl.got = <<cl.call, k + 1>>)
            => /\ cl.res = [kind |-> "Ok", retries |-> k]
               /\ k <= conf.retries
        /\ (DroppedFirst(cl.sent) /\ cl.got = <<>>)
            => /\ cl.sent = conf.retries + 1
               /\ cl.res.kind = "NoResponse"

\* With retries = 2 the server dropped two datagrams and answered the third.
C10_Witness ==
    /\ cl.pc = "done"
    /\ conf.retries = 2
    /\ DroppedFirst(2)
    /\ cl.got = <<cl.call, 3>>
    /\ cl.res = [kind |-> "Ok", retries |-> 2]

\* The server dropped more datagrams than the configured retries.
C10_WitnessNoResponse ==
    /\ cl.pc = "done"
    /\ conf.retries = 1
    /\ cl.sent = 2
    /\ DroppedFirst(2)
    /\ cl.res.kind = "NoResponse"

\* C11: with a read timeout set, a call never sends more than retries + 1
\* datagrams, its retry counter and the retry count it reports never exceed
\* the configured retries (for retries = 255 too, where one more increment
\* would wrap the u8), and every call that has started returns.
C11_Terminates ==
    /\ [](/\ cl.sent <= conf.retries + 1
          /\ cl.retry <= conf.retries
          /\ cl.res.retries <= conf.retries)
    /\ (cl.pc \in {"send", "recv"}) ~> (cl.pc = "done")

\* With retries = 255 the call was answered on its last datagram, the 256th.
C11_Witness ==
    /\ conf.retries = 255
    /\ cl.pc = "done"
    /\ cl.sent = 256
    /\ cl.res = [kind |-> "Ok", retries |-> 255]

\* The header of datagram d is the one the call in progress expects.
Matches(d) == d.seq_no = 0 /\ d.key = cl.key

\* C12: when recv returns a datagram whose header differs from (0, key of the
\* called endpoint), the call ends at once with BadResponse carrying the
\* received seq_no and key: nothing more is sent and nothing more is awaited,
\* whatever retries remain.
C12_BadResponse ==
    [][(cl.pc = "recv" /\ inbox # <<>> /\ inbox' = Tail(inbox) /\ ~Matches(Head(inbox)))
        => /\ cl'.pc = "done"
           /\ cl'.res = [kind |-> "BadResponse", retries |-> 0,
                         seq_no |-> Head(inbox).seq_no, key |-> Head(inbox).key]
           /\ cl'.sent = cl.sent
           /\ net' = net]_vars

\* A call ended with BadResponse on a reply with the right key and another
\* seq_no, on its first datagram, with two retries left.
C12_Witness ==
    /\ cl.pc = "done"
    /\ cl.res.kind = "BadResponse"
    /\ cl.res.seq_no = OtherSeqNo
    /\ cl.res.key = cl.key
    /\ cl.sent = 1
    /\ conf.retries = 2

\* C13: the response a call returns answers a datagram the client sent during
\* that same call, never a datagram of an earlier call.
C13_ResponseOfSameCall ==
    (cl.pc = "done" /\ cl.res.kind = "Ok") => cl.got[1] = cl.call

-----------------------------------------------------------------------------
(* Properties of the client calling the server *)

\* C14: a datagram whose key has no handler spawns no task and gets no reply
\* (every reply sent or waiting in the client's socket has a registered key),
\* the receive loop is still running after it, and a call of an endpoint
\* without handler that received nothing has sent retries + 1 datagrams and
\* returns NoResponse.
C14_NoMatch ==
    /\ \A n \in 1..Len(log) : log[n] = "NoMatch" => tasks[n] = NoTask
    /\ out # NoReply => Registered(out.key)
    /\ \A i \in 1..Len(inbox) : Registered(inbox[i].key)
    /\ (\E n \in 1..Len(log) : log[n] = "NoMatch") => serving
    /\ (cl.pc = "done" /\ ~Registered(cl.key) /\ cl.got = <<>>)
        => /\ cl.res.kind = "NoResponse"
           /\ cl.sent = conf.retries + 1

\* The server received the datagram of a call of bad/path, which ended with
\* NoResponse, and then the datagram of an echo call, which it answered.
C14_Witness ==
    /\ log = <<"NoMatch", "Ok">>
    /\ cl.call = 2
    /\ cl.pc = "done"
    /\ cl.res.kind = "Ok"
    /\ cl.got = <<2, 1>>

-----------------------------------------------------------------------------
(* Properties of the receive loop and of the tasks it leaves running *)

\* The devices: their locks and what the drivers wrote to them.
devices == <<bgLock, cells, dimming, display, lcdLock, backlight>>

\* C15: a datagram shorter than a header, or one whose payload does not
\* deserialize as the request type of its key, spawns no task, touches no
\* device and gets no reply; the loop goes on with the next datagram.
C15_ParseError ==
    /\ [](/\ \A n \in 1..Len(log) : log[n] = "Parse" => tasks[n] = NoTask
          /\ \A t \in TaskIds : tasks[t].req \notin Malformed
          /\ out.req \notin Malformed
          /\ (\E n \in 1..Len(log) : log[n] = "Parse") => serving)
    /\ [][(recvd' = recvd + 1 /\ log'[recvd'] = "Parse")
            => /\ tasks' = tasks
               /\ devices' = devices
               /\ blinkChan' = blinkChan
               /\ out' = NoReply
               /\ serving']_vars

\* A malformed datagram was received first, and the request received after it
\* was served.
C15_Witness ==
    /\ log = <<"Parse", "Ok">>
    /\ tasks[1] = NoTask
    /\ tasks[2] = Finished
    /\ out # NoReply

\* The tasks, request tasks and blinker, that are inside a driver call on a device.
Driving(dev) ==
    {t \in TaskIds : tasks[t].pc = "drv" /\ DeviceOf(tasks[t].handler) = dev}
    \cup (IF dev = "bargraph" /\ blink.pc = "drv" THEN {Blinker} ELSE {})

LockOf(dev) == IF dev = "bargraph" THEN bgLock ELSE lcdLock

\* C16: at any instant at most one task, request task or blinker, executes a
\* driver operation on a device, and it is the holder of the device's lock. A
\* SetLed transaction starts from the display buffer the transaction before it
\* left and changes only its own LED, so two concurrent SetLed requests for
\* different LEDs make two whole transactions, one after the other.
C16_OneDriverCall ==
    /\ [](\A dev \in {"bargraph", "lcd"} :
            /\ Cardinality(Driving(dev)) <= 1
            /\ Driving(dev) = IF LockOf(dev) = 0 THEN {} ELSE {LockOf(dev)})
    /\ [][\A t \in TaskIds :
            (Drove(t) /\ tasks[t].handler = "set_led" /\ tasks[t].msg.num \in AllLeds)
            => /\ Driving("bargraph") = {t}
               /\ Driving("bargraph")' = {}
               /\ tasks'[t].wrote
               /\ \A n \in AllLeds \ {tasks[t].msg.num} :
                    LedColorOf(cells', n) = LedColorOf(cells, n)
               /\ LedColorOf(cells', tasks[t].msg.num) = tasks[t].msg.arg
               /\ \A u \in TaskIds \ {t} : tasks'[u] = tasks[u]]_vars

\* Two SetLed requests for different LEDs are in progress: the first has
\* written its LED, the second is inside its driver call.
C16_Witness ==
    /\ tasks[1].handler = "set_led" /\ tasks[1].msg.num = 13 /\ tasks[1].pc = "reply"
    /\ tasks[1].ok /\ tasks[1].wrote
    /\ tasks[2].handler = "set_led" /\ tasks[2].msg.num = 2 /\ tasks[2].pc = "drv"
    /\ LedColorOf(cells, 13) = "Red"
    /\ bgLock = 2

\* Task u is inside its driver call, or waits for a device lock that is held.
InClosure(u) ==
    \/ tasks[u].pc = "drv"
    \/ tasks[u].pc = "lock" /\ LockOf(DeviceOf(tasks[u].handler)) # 0

\* C17: the executor never waits for a driver call or for a device lock. While
\* the closure of another request executes its driver call or is blocked on
\* the lock, an Echo task can send its reply and the receive loop can take the
\* next datagram; the reply leaves the other task where it was.
C17_ExecutorNeverWaits ==
    /\ [](\A t \in TaskIds :
            (tasks[t].pc = "reply" /\ tasks[t].handler = "echo"
                /\ \E u \in TaskIds \ {t} : InClosure(u))
            => ENABLED Reply(t))
    /\ []((serving /\ recvd < MaxTasks /\ \E u \in TaskIds : InClosure(u))
            => ENABLED RecvEvents)
    /\ [][(out' # NoReply /\ out'.handler = "echo")
            => \A u \in TaskIds : InClosure(u) => tasks'[u] = tasks[u]]_vars

\* An Echo was answered while the driver call of a Notify executes and an Ack
\* waits for the bargraph lock the Notify holds.
C17_Witness ==
    /\ out # NoReply /\ out.handler = "echo"
    /\ \E u, v \in TaskIds :
        /\ tasks[u].handler = "notify" /\ tasks[u].pc = "drv" /\ bgLock = u
        /\ tasks[v].handler = "ack" /\ tasks[v].pc = "lock"

\* The step in which task t sends its reply or fails to send it.
Replied(t) == tasks[t].pc = "reply" /\ tasks'[t].pc # "reply"

\* C18: a failure after a task was spawned (a driver call that returns an
\* error, a reply that cannot be serialized or sent) ends neither the receive
\* loop nor the blinker nor another task. The task goes on to its next step,
\* and what its peer gets is a RequestError reply or no reply.
C18_FailuresStayLocal ==
    /\ [](serving /\ blink.pc # "absent")
    /\ []((recvd < MaxDatagrams) => ENABLED Recv)
    /\ [][\A t \in TaskIds :
            /\ (Drove(t) /\ ~tasks'[t].ok)
                => /\ tasks'[t].pc = StepAfter(tasks[t].handler, "drv")
                   /\ \A u \in TaskIds \ {t} : tasks'[u] = tasks[u]
                   /\ blink' = blink /\ timer' = timer /\ blinkChan' = blinkChan
            /\ (Replied(t) /\ tasks[t].handler # "echo" /\ ~tasks[t].ok)
                => out' = NoReply \/ out'.body = "RequestError"
            /\ (Replied(t) /\ out' = NoReply)
                => /\ tasks'[t] = Finished
                   /\ \A u \in TaskIds \ {t} : tasks'[u] = tasks[u]
                   /\ blink' = blink /\ timer' = timer /\ blinkChan' = blinkChan]_vars

\* The driver call of a Notify for LED 1 failed on the bus; its event was
\* pushed and consumed by the blinker, its RequestError reply was sent, and an
\* Echo received after the failure waits to be answered.
C18_Witness ==
    /\ out # NoReply /\ out.handler = "notify" /\ out.req.body.num = 1
    /\ out.body = "RequestError"
    /\ blink.via = "LedSet"
    /\ tasks[2].handler = "echo" /\ tasks[2].pc = "reply"
    /\ serving

-----------------------------------------------------------------------------
(* Properties of the blinker's channels *)

\* The events the tasks of the Notify and the Ack can push.
Events ==
    {[led |-> l, num |-> 1, ok |-> o] : l \in {"LedSet", "LedClear"}, o \in BOOLEAN}

\* The event task t pushes.
EventOfTask(t) ==
    [led |-> EventOf(tasks[t].handler), num |-> tasks[t].msg.num, ok |-> tasks[t].ok]

\* No task will push an event any more.
NoMorePushes ==
    /\ recvd = MaxDatagrams
    /\ \A t \in TaskIds :
        EventOf(tasks[t].handler) = "none" \/ tasks[t].pc \notin {"lock", "drv", "push"}

\* The states the blinker passes through after it consumed an event.
StatesAfter(led) ==
    IF led = "LedSet" THEN {"Fast", "Med", "Slow", "Off"} ELSE {"Off"}

\* C19: the events of Notify and Ack tasks that push while the blinker has not
\* consumed the pending event are not lost. The channel changes only by a push
\* that appends or by the blinker taking its head, and the event the blinker
\* took sets its state; tasks waiting to push eventually push; an event in the
\* channel is eventually consumed; and once the last event is in the channel
\* and no push is left, the blinker consumes it and is from then on in the
\* progression that event starts, at Fast for LedSet and at Off for LedClear.
C19_NoPushLost ==
    /\ [][/\ (blinkChan' # blinkChan) =>
                \/ \E t \in TaskIds :
                     Pushed(t) /\ blinkChan' = Append(blinkChan, EventOfTask(t))
                \/ /\ blinkChan' = Tail(blinkChan)
                   /\ blink'.ev = Head(blinkChan)
                   /\ blink'.pc = "drain"
          /\ (blink.pc = "drain" /\ blink'.pc # "drain") =>
                /\ epoch'.led = blink.ev.led
                /\ blink'.state = OnEvent(blink.state, blink.ev.led)]_vars
    /\ []((NoMorePushes /\ blinkChan = <<>> /\ blink.pc # "drain" /\ epoch.led # "none")
            => blink.state \in StatesAfter(epoch.led))
    /\ \A t \in TaskIds : (tasks[t].pc = "push") ~> (tasks[t].pc # "push")
    /\ \A e \in Events : (blinkChan = <<e>>) ~> (blink.pc = "drain" /\ blink.ev = e)
    /\ \A e \in Events :
        (blinkChan = <<e>> /\ NoMorePushes)
        ~> [](/\ blinkChan = <<>>
              /\ epoch.led = e.led
              /\ blink.pc # "drain" => blink.state \in StatesAfter(e.led))

\* The LedSet of a Notify is pending in the channel, not yet consumed by the
\* blinker, and the task of an Ack waits to push its LedClear.
C19_Witness ==
    /\ Len(blinkChan) = 1
    /\ blinkChan[1].led = "LedSet"
    /\ blink.pc # "select"
    /\ tasks[2].pc = "push" /\ tasks[2].handler = "ack"

\* The timer subtask is live: spawned, neither finished nor cancelled.
TimerLive == timer.st \in {"pending", "waiting"}

\* The step in which the blinker leaves its select.
Selected == blink.pc = "select" /\ blink'.pc # "select"

\* C20: at most one timer subtask of the blinker is live at any time. The
\* blinker leaves its select either with the message of the subtask, which
\* has finished, or with an event, and then it cancels the subtask; from
\* there until it spawns the next subtask none is live.
C20_OneTimer ==
    /\ [](blink.pc \in {"top", "drain", "lock", "drv", "spawn"} => ~TimerLive)
    /\ [](blink.pc = "drain" => timer.st = "cancelled")
    /\ []((blink.pc = "select" /\ waitDone # <<>>) => timer.st = "finished")
    /\ [][Selected => (timer.st = "finished" \/ timer'.st = "cancelled")]_vars
    /\ [][(TimerLive' /\ timer' # timer) => (blink.pc \in {"top", "spawn"} /\ ~TimerLive)]_vars

\* The blinker is about to spawn the pending subtask of Off after an Ack
\* arrived in Fast, whose 60 s timer subtask was waiting and is cancelled.
C20_Witness ==
    /\ blink.pc = "spawn"
    /\ blink.prev = "Fast"
    /\ blink.via = "LedClear"
    /\ blink.state = "Off"
    /\ timer = NoTimer

-----------------------------------------------------------------------------
(* Properties of the startup *)

\* The positions in the configuration of the devices of a driver.
Configured(driver) == {i \in 1..Len(boot.conf) : boot.conf[i] = driver}

\* The blink tasks spawned for the device at position i.
BlinkersOf(i) == {k \in 1..Len(boot.blinkers) : boot.blinkers[k] = i}

\* C21: at most one blink task exists per bargraph. Blink tasks are spawned
\* only while main_loop goes through its device list, one for each configured
\* Bargraph device it initialized and none for another device; once the
\* server receives datagrams no blink task is created.
C21_OneBlinkTask ==
    /\ [](/\ \A i \in 1..Len(boot.conf) : Cardinality(BlinkersOf(i)) <= 1
          /\ \A k \in 1..Len(boot.blinkers) : boot.blinkers[k] \in Configured("Bargraph")
          /\ boot.pc \in {"handlers", "serve"}
                => \A i \in Configured("Bargraph") : Cardinality(BlinkersOf(i)) = 1
          /\ (blink.pc = "absent") = (boot.blinkers = <<>>))
    /\ [][boot'.blinkers # boot.blinkers
            => /\ boot.pc = "devices" /\ ~serving /\ recvd = 0
               /\ boot'.blinkers = Append(boot.blinkers, boot.idx + 1)]_vars
    /\ [][serving => boot'.blinkers = boot.blinkers]_vars

\* A server configured with an LCD and a bargraph has served a Notify, which
\* its one blink task consumed.
C21_Witness ==
    /\ boot.conf = <<"Hd44780", "Bargraph">>
    /\ boot.blinkers = <<2>>
    /\ serving
    /\ recvd = 1
    /\ blink.state = "Fast"
    /\ blink.pc = "select"

-----------------------------------------------------------------------------
(* Properties of the blinker and the LEDs *)

\* C22: the blinker that consumed the LedClear of an Ack for one LED goes to
\* Off, sets the display steady on and stays there until the next event,
\* whatever LEDs are lit: the state it enters depends on the event only.
C22_AckGoesOff ==
    /\ (blink.via = "LedClear" /\ blink.pc \in {"lock", "drv", "spawn"})
        => blink.state = "Off"
    /\ (blink.via = "LedClear" /\ blink.pc = "spawn") => display = "ON"
    /\ (epoch.led = "LedClear" /\ blink.pc = "select")
        => blink.state = "Off" /\ display = "ON" /\ timer.st = "pending"

\* LED 1 and LED 2 were notified and LED 1 was acknowledged while the blinker
\* was in Fast: LED 2 is still red, and the blinker is in Off, steady on.
C22_Witness ==
    /\ recvd = 3
    /\ \A t \in TaskIds : tasks[t] = Finished
    /\ LedColorOf(cells, 1) = "Off"
    /\ LedColorOf(cells, 2) = "Red"
    /\ epoch.led = "LedClear"
    /\ epoch.from = "Fast"
    /\ blink.pc = "select"
    /\ blink.state = "Off"
    /\ display = "ON"

\* The cells of LED num as the mapping states them.
RowOf(num) == (num % 4) + (IF num >= 12 THEN 4 ELSE 0)

ColOf(num) == (num \div 4) % 3

LitBy(num, color) ==
    (IF color \in {"Red", "Yellow"} THEN {<<RowOf(num), ColOf(num)>>} ELSE {})
    \cup (IF color \in {"Green", "Yellow"} THEN {<<RowOf(num) + 8, ColOf(num)>>} ELSE {})

\* C23: for every num in 0..23 set_led_no addresses the red cell at row
\* (num mod 4) + (4 if num >= 12), column (num div 4) mod 3, and the green cell
\* 8 rows below it; after the call, of these two cells exactly the red one is
\* lit for Red, the green one for Green, both for Yellow and none for Off, and
\* every other cell of the display buffer is as it was.
C23_LedCells ==
    [][\A t \in TaskIds :
        (Drove(t) /\ tasks[t].handler = "set_led" /\ tasks[t].msg.num \in AllLeds)
        => LET n == tasks[t].msg.num
               both == {<<RowOf(n), ColOf(n)>>, <<RowOf(n) + 8, ColOf(n)>>}
           IN  /\ RowOf(n) + 8 \in 0..15 /\ ColOf(n) \in 0..7
               /\ cells' \cap both = LitBy(n, tasks[t].msg.arg)
               /\ cells' \ both = cells \ both
               /\ tasks'[t].wrote]_vars

\* LED 12 was set to Yellow and LED 23 to Green: cells (4,0), (12,0) and
\* (15,2) are lit.
C23_Witness ==
    /\ tasks[1] = Finished
    /\ tasks[2].pc = "reply" /\ tasks[2].msg.num = 23 /\ tasks[2].msg.arg = "Green"
    /\ tasks[2].ok
    /\ cells = {<<4, 0>>, <<12, 0>>, <<15, 2>>}

-----------------------------------------------------------------------------
(* Properties of the LCD driver *)

AllAscii(m) == \A k \in 1..Len(m) : is_ascii(m[k])

\* C24: for an ASCII message write_msg clears the display, puts the cursor
\* at the start of row 0 and writes character i at display row i div 20,
\* column i mod 20 (a 25-character message: characters 0..19 on row 0 and
\* 20..24 on row 1).
C24_WriteMsgCells ==
    (lcdDrv.pc = "loop" /\ AllAscii(lcdDrv.msg)) =>
        /\ lcdDrv.i = 0 =>
            /\ CellOf(lcdDrv.cursor) = <<0, 0>>
            /\ \A a \in LcdAddrs : lcdDrv.ram[a] = Blank
        /\ \A i \in 0..(lcdDrv.i - 1) :
            /\ CellOf(lcdDrv.at[i + 1]) = <<i \div 20, i % 20>>
            /\ lcdDrv.ram[lcdDrv.at[i + 1]] = lcdDrv.msg[i + 1]

\* C25: non-ASCII characters of a SendMsg text are skipped without error:
\* the bytes written to the LCD are exactly the ASCII characters of the text
\* in their original order, and the request is answered Ok.
C25_SkipsNonAscii ==
    [][ /\ lcdDrv'.pc = "loop" =>
            lcdDrv'.bytes = SelectSeq(SubSeq(lcdDrv'.msg, 1, lcdDrv'.i), is_ascii)
        /\ (lcdDrv.pc = "loop" /\ lcdDrv.i < Len(lcdDrv.msg)
                /\ ~is_ascii(lcdDrv.msg[lcdDrv.i + 1])) =>
            /\ lcdDrv'.res # "Err(WriteStr)"
            /\ lcdDrv'.bytes = lcdDrv.bytes
            /\ lcdDrv'.ram = lcdDrv.ram
            /\ ~MoveDue(lcdDrv.i) => lcdDrv' = [lcdDrv EXCEPT !.i = @ + 1]
        /\ lcdDrv'.res = "Ok(0)" =>
            /\ lcdDrv'.bytes = SelectSeq(lcdDrv'.msg, is_ascii)
            /\ SendMsgReply(lcdDrv'.res) = "Ok(Ok)"
      ]_vars

C25_Witness ==
    /\ lcdDrv.pc = "done"
    /\ lcdDrv.msg = <<72, 233, 105>>
    /\ lcdDrv.bytes = <<72, 105>>
    /\ SendMsgReply(lcdDrv.res) = "Ok(Ok)"

InitErrors == {"Init(Driver(Bargraph))", "Init(Driver(Hd44780))", "Init(Dispatch)"}

\* C26: if a configured device fails to initialize or a handler registration
\* fails, main_loop returns an Init error before it receives a datagram: a
\* server whose startup failed never dispatches a request, and all handlers
\* are registered before the first datagram is received.
C26_StartupBeforeServing ==
    /\ [](/\ boot.err # "none" =>
                /\ boot.pc = "failed" /\ boot.err \in InitErrors
                /\ ~serving /\ recvd = 0 /\ log = <<>>
                /\ \A t \in TaskIds : tasks[t] = NoTask
          /\ boot.pc = "failed" => boot.err # "none"
          /\ (serving \/ recvd > 0) =>
                /\ boot.pc = "serve"
                /\ boot.reg = Cardinality(Handlers)
                /\ boot.idx = Len(boot.conf))
    /\ [][boot.pc = "failed" => UNCHANGED <<boot, serving, recvd, log, tasks>>]_vars

\* The LCD of a server configured with a bargraph and an LCD failed to
\* initialize after the bargraph's blink task was spawned.
C26_Witness ==
    /\ boot.pc = "failed"
    /\ boot.conf = <<"Bargraph", "Hd44780">>
    /\ boot.err = "Init(Driver(Hd44780))"
    /\ boot.blinkers = <<1>>
    /\ recvd = 0

\* The blinker is suspended in the select on the event and timer-done channels.
BlinkWaiting == blink.pc = "select"

\* The timer subtask of the blinker is a running wait_then_send_done(secs):
\* its Timer has not elapsed, or it has and its message wakes the blinker.
TimerRunning(secs) ==
    /\ timer.dur = secs
    /\ \/ timer.st = "waiting"
       \/ timer.st = "finished" /\ waitDone = <<[dur |-> secs, stale |-> FALSE]>>

\* The last display-mode command the blinker issued since it consumed an event.
LastMode == IF epoch.cmds = <<>> THEN "none" ELSE epoch.cmds[Len(epoch.cmds)].mode

\* C27: whenever the blinker waits for the next event or timer in state Off,
\* Fast, Med or Slow, the last display-mode command it issued is steady On,
\* 2 Hz, 1 Hz or 0.5 Hz respectively, and a timer is running exactly in Fast,
\* Med and Slow; in Init it has issued no display-mode command.
C27_ModeOfState ==
    BlinkWaiting =>
        CASE blink.state = "Init" ->
                /\ epoch.led = "none" /\ LastMode = "none"
                /\ timer.st = "pending"
          [] blink.state = "Off" ->
                /\ LastMode = "ON" /\ display = "ON"
                /\ timer.st = "pending"
          [] blink.state = "Fast" ->
                /\ LastMode = "TWO_HZ" /\ display = "TWO_HZ"
                /\ TimerRunning(60)
          [] blink.state = "Med" ->
                /\ LastMode = "ONE_HZ" /\ display = "ONE_HZ"
                /\ TimerRunning(300)
          [] blink.state = "Slow" ->
                /\ LastMode = "HALF_HZ" /\ display = "HALF_HZ"
                /\ TimerRunning(900)

\* The blinker waits in Slow, with the 900 s timer running, after the Fast
\* and the Med period of a notification.
C27_Witness ==
    /\ BlinkWaiting
    /\ blink.state = "Slow"
    /\ timer.st = "waiting"
    /\ display = "HALF_HZ"
    /\ Len(epoch.cmds) = 3

-----------------------------------------------------------------------------
(* Properties of the device locks *)

\* The closures that `unblock` runs on the blocking workers: those of the
\* request tasks and the one of the blinker.
Workers == TaskIds \cup {Blinker}

SameLed(t, u) ==
    /\ t < u
    /\ tasks[t].handler = "set_led" /\ tasks[u].handler = "set_led"
    /\ tasks[t].msg.num = tasks[u].msg.num
    /\ tasks[t].msg.num \in AllLeds

\* C29: when several requests set the same LED concurrently, the LED's final
\* color is the color of the request whose driver call acquired the device
\* lock last: the LED changes only in the driver call of the lock holder,
\* which leaves it in the holder's color. That lock order is not tied to the
\* order of arrival (either closure can get the free lock), and the reply of
\* the later request can be sent before the reply of the earlier one.
C29_LastLockWins ==
    /\ [][\A t \in TaskIds :
            (Drove(t) /\ tasks[t].handler = "set_led" /\ tasks[t].msg.num \in AllLeds)
            => /\ bgLock = t
               /\ LedColorOf(cells', tasks[t].msg.num) = tasks[t].msg.arg]_vars
    /\ [][cells' # cells => \E t \in TaskIds : Drove(t) /\ bgLock = t]_vars
    /\ [](\A t, u \in TaskIds :
            (SameLed(t, u) /\ tasks[t].pc = "lock" /\ tasks[u].pc = "lock" /\ bgLock = 0)
            => (ENABLED Acquire(t) /\ ENABLED Acquire(u)))
    /\ [](\A t, u \in TaskIds :
            (SameLed(t, u) /\ tasks[t].pc # "done" /\ tasks[u].pc = "reply")
            => ENABLED Reply(u))

\* LED 13 was set to Green by the second request and then to Red by the
\* first, whose closure got the lock last: the LED is red, and the reply of
\* the second request is sent while the first one has not replied.
C29_Witness ==
    /\ tasks[1].handler = "set_led" /\ tasks[1].pc = "reply"
    /\ tasks[1].msg.num = 13 /\ tasks[1].msg.arg = "Red"
    /\ tasks[2] = Finished
    /\ out # NoReply /\ out.req.body = Payload("SetLed", 13, "Green")
    /\ LedColorOf(cells, 13) = "Red"

-----------------------------------------------------------------------------
(* Properties of the request tasks' progress *)

Spawned(t) == tasks[t].pc \notin {"none", "done"}

\* C30: every spawned request task eventually finishes, by sending its reply
\* or dropping it, provided each driver call returns; a Notify or Ack task
\* suspended on the full blinker channel is eventually released, because the
\* blinker keeps consuming events, and no task waits forever on the device
\* lock.
C30_TasksFinish ==
    /\ \A t \in TaskIds : Spawned(t) ~> (tasks[t] = Finished)
    /\ \A t \in TaskIds :
        (tasks[t].pc = "push" /\ Len(blinkChan) = 1)
        ~> (tasks[t].pc = "reply" /\ tasks[t].pushed)
    /\ \A t \in TaskIds :
        (tasks[t].pc = "lock" /\ LockOf(DeviceOf(tasks[t].handler)) # 0)
        ~> (tasks[t].pc = "drv")
    /\ (blinkChan # <<>>) ~> (blinkChan = <<>> /\ blink.pc = "drain")

\* An Ack is suspended in its push behind the LedSet of a Notify, which the
\* blinker has not taken from the channel yet.
C30_Witness ==
    /\ tasks[2].handler = "ack" /\ tasks[2].pc = "push"
    /\ Len(blinkChan) = 1 /\ blinkChan[1].led = "LedSet"
    /\ blink.pc = "select"

-----------------------------------------------------------------------------
(* Properties of the blinker's timer *)

\* C31: whenever a timer subtask finishes its wait and posts to the
\* timer-done channel, that channel is open and empty, so the send completes
\* at once and its unwrap never panics; the channel is empty each time a new
\* timer subtask is spawned.
C31_DoneChannelEmpty ==
    /\ [](timer.st = "waiting" =>
            /\ waitDone = <<>>
            /\ blink.pc = "select"
            /\ ENABLED TimerExpire)
    /\ [][(timer.st = "waiting" /\ timer'.st = "finished") =>
            waitDone' = <<[dur |-> timer.dur, stale |-> FALSE]>>]_vars
    /\ [][(timer' # timer /\ timer'.st \in {"pending", "waiting"}) =>
            (waitDone = <<>> /\ waitDone' = <<>>)]_vars

\* The blinker spawns the 60 s timer of Fast after a second Notify, whose
\* handling drained the message the earlier timer had posted.
C31_Witness ==
    /\ blink.pc = "spawn"
    /\ blink.state = "Fast"
    /\ blink.drained
    /\ waitDone = <<>>

\* C32: while the blinker is in Init or Off no timer-done message is ever
\* received: the only way to leave Init or Off is a LedSet or LedClear
\* event, so the timer-expiry branches Init -> Off and Off -> Fast of the
\* code are never taken.
C32_NoExpiryInInitOff ==
    /\ [](blink.state \in {"Init", "Off"} =>
            /\ waitDone = <<>>
            /\ timer.st # "waiting"
            /\ ~ENABLED BlinkSelectThem)
    /\ [][(blink.state \in {"Init", "Off"} /\ blink'.state # blink.state) =>
            /\ blink.pc = "drain"
            /\ blink.ev.led \in {"LedSet", "LedClear"}
            /\ blink'.state = OnEvent(blink.state, blink.ev.led)]_vars
    /\ [][(blink'.via = "timer" /\ blink.via # "timer") =>
            blink.state \in {"Fast", "Med", "Slow"}]_vars

\* The blinker waits in Off after the Fast, Med and Slow periods of a
\* notification have run out: nothing but an event can wake it.
C32_Witness ==
    /\ blink.pc = "select"
    /\ blink.state = "Off"
    /\ Len(epoch.cmds) = 4
    /\ timer.st = "pending"
    /\ blinkChan = <<>>

-----------------------------------------------------------------------------
(* Properties of the client's error paths *)

SocketErrors == OtherErrorKinds \cup {"SendError"}

\* C33: only a receive timeout makes the client retransmit: a call on a
\* client that never connected fails with NotConnected without sending a
\* datagram, and a send error or a receive error other than a timeout ends
\* the call at once with Io, with no further datagram sent and no retry
\* consumed.
C33_OnlyTimeoutRetries ==
    /\ [](/\ cl.sent <= cl.retry + 1
          /\ conf.sock = "None" =>
                /\ net = {} /\ cl.sent = 0
                /\ cl.pc = "done" => cl.res.kind = "NotConnected")
    /\ [][(cl'.call = cl.call /\ (cl'.retry # cl.retry \/ (cl'.sent > cl.sent /\ cl.sent > 0)))
            => /\ cl'.io = "WouldBlock"
               /\ cl'.retry \in {cl.retry, cl.retry + 1}]_vars
    /\ [][(cl.pc \in {"send", "recv"} /\ cl'.io \in SocketErrors)
            => /\ cl'.pc = "done" /\ cl'.res.kind = "Io"
               /\ cl'.retry = cl.retry /\ cl'.sent = cl.sent /\ net' = net]_vars
    /\ [][(cl.pc = "done" /\ cl'.call = cl.call)
            => (cl'.sent = cl.sent /\ cl'.res = cl.res /\ net' \subseteq net)]_vars

\* With two retries configured the first recv timed out and the second
\* failed with ConnectionRefused: the call ended with Io after two datagrams
\* and one retry.
C33_Witness ==
    /\ conf.retries = 2
    /\ cl.pc = "done"
    /\ cl.res.kind = "Io"
    /\ cl.io = "ConnectionRefused"
    /\ cl.retry = 1
    /\ cl.sent = 2

-----------------------------------------------------------------------------
(* Properties of servers that lack a device *)

\* C34: for every device configuration that passes startup (including one
\* with no Bargraph entry or no Hd44780 entry) and every sequence of received
\* datagrams, the serve loop keeps running and keeps answering Echo: a
\* well-formed request for an endpoint whose device is not configured does
\* not bring the server down.
C34_MissingDeviceHarmless ==
    boot.pc = "serve" =>
        /\ serving
        /\ \A i \in 1..Len(log) : log[i] # "Panic"
        /\ \A t \in TaskIds :
            (tasks[t].handler = "echo" /\ tasks[t].pc = "reply") => ENABLED Reply(t)

-----------------------------------------------------------------------------
(* Properties of the events of failed requests *)

\* C35: Notify and Ack push their blinker event whether the driver call
\* succeeded or failed: a Notify answered with RequestError (for example
\* num = 24) still moves the blinker to Fast, and an Ack answered with
\* RequestError still moves it to Off.
C35_PushWhateverResult ==
    /\ [][\A t \in TaskIds :
            /\ (Drove(t) /\ EventOf(tasks[t].handler) # "none") => tasks'[t].pc = "push"
            /\ Pushed(t) =>
                blinkChan' = Append(blinkChan, [led |-> EventOf(tasks[t].handler),
                                                num |-> tasks[t].msg.num,
                                                ok |-> tasks[t].ok])]_vars
    /\ [][(blink.pc = "drain" /\ blink'.pc # "drain") =>
            blink'.state = IF blink.ev.led = "LedSet" THEN "Fast" ELSE "Off"]_vars
    /\ []((out # NoReply /\ out.handler \in {"notify", "ack"}) => out.pushed)

\* An Ack for LED 24 is answered RequestError while the blinker, which a
\* Notify had put in Fast, goes to Off because of the Ack's LedClear.
C35_Witness ==
    /\ out # NoReply /\ out.handler = "ack" /\ out.body = "RequestError"
    /\ out.req.body.num = 24
    /\ blink.ev = [led |-> "LedClear", num |-> 24, ok |-> FALSE]
    /\ blink.prev = "Fast" /\ blink.state = "Off"

-----------------------------------------------------------------------------
(* Properties of a client call and the operations the server executes for it *)

\* The task of datagram idx of the call in progress has not made its driver
\* call yet.
NotYetDriven(idx) ==
    \E t \in TaskIds :
        /\ tasks[t].pc \in {"lock", "drv"}
        /\ tasks[t].req.call = cl.call /\ tasks[t].req.idx = idx

\* The datagrams of the call in progress whose device operation the server
\* has executed.
Executed ==
    {idx \in 1..MaxSends : cl.fate[idx] \in {"received", "answered"} /\ ~NotYetDriven(idx)}

\* C36: for one client call with configured retries r the server executes
\* the requested device operation at most r+1 times, and at least once
\* whenever the call returns a reply; a retransmitted datagram is executed
\* again as a new request (same seq_no 0, same key) and is not deduplicated.
C36_ExecutedPerCall ==
    /\ Cardinality(Executed) <= conf.retries + 1
    /\ (cl.pc = "done" /\ cl.res.kind = "Ok") => Executed # {}
    /\ \A t \in TaskIds :
        (Live(t) /\ tasks[t].req.src = ClientAddr) =>
            (tasks[t].seq_no = 0 /\ tasks[t].handler = "notify")

-----------------------------------------------------------------------------
(* Properties of a notification that is acknowledged *)

\* The Ack call of the client (its second call) has returned Ok.
AckReturnedOk ==
    /\ cl.call = 2
    /\ cl.key = EndpointKey(AckEndpoint)
    /\ cl.pc = "done"
    /\ cl.res.kind = "Ok"

\* No request is in progress in the server and the blinker waits in its select.
ServerQuiet ==
    /\ \A t \in TaskIds : ~Live(t)
    /\ blinkChan = <<>>
    /\ blink.pc = "select"

\* C37: once the client's Ack call for LED 1 has returned Ok, and with no new
\* Notify or SetLed call started, LED 1 is Off, and once the server has
\* finished the requests it received the blinker is in Off.
C37_AckedStaysOff ==
    AckReturnedOk =>
        /\ LedColorOf(cells, 1) = "Off"
        /\ ServerQuiet => blink.state = "Off"

-----------------------------------------------------------------------------
(* Properties of the order of driver calls and blinker events *)

\* Task t has made its driver call on LED 1 with success and its event is not
\* yet in the channel.
DroveLed1(t, handler) ==
    /\ tasks[t].pc = "push"
    /\ tasks[t].handler = handler
    /\ tasks[t].msg.num = 1
    /\ tasks[t].ok

\* Of a Notify task and an Ack task that both drove LED 1, the one whose call
\* took effect last: the LED shows it.
DroveLast(n, a) == IF LedColorOf(cells, 1) = "Off" THEN a ELSE n

\* C38: events enter the blinker's channel in the order in which the driver
\* calls took effect: of a Notify task and an Ack task that have both driven
\* LED 1, the one that drove last is not the first to push its event.
C38_EventsInDriverOrder ==
    [][\A n, a \in TaskIds :
          (DroveLed1(n, "notify") /\ DroveLed1(a, "ack")) =>
              ~tasks'[DroveLast(n, a)].pushed]_vars

-----------------------------------------------------------------------------
(* Properties of set_led_no as an update of one LED *)

\* The red and the green cell of LED num.
CellsOfLed(num) == {RedLoc(num), GreenLoc(num)}

\* C39: set_led_no(num, color) with num in 0..23 changes only the two cells of
\* LED num, which no other LED number shares, so every other LED keeps its
\* color; LED num then shows the color of the argument whatever it showed
\* before, and the same call made again leaves the display buffer as it is.
C39_OnlyItsLed ==
    [][\A t \in TaskIds :
        (Drove(t) /\ tasks[t].handler = "set_led" /\ tasks[t].msg.num \in AllLeds)
        => LET n == tasks[t].msg.num
               color == tasks[t].msg.arg
           IN  /\ cells' \ CellsOfLed(n) = cells \ CellsOfLed(n)
               /\ \A m \in AllLeds \ {n} :
                    /\ CellsOfLed(m) \cap CellsOfLed(n) = {}
                    /\ LedColorOf(cells', m) = LedColorOf(cells, m)
               /\ LedColorOf(cells', n) = color
               /\ \A io \in BOOLEAN :
                    set_led_no(cells', n, color, io).cells = cells']_vars

\* LED 5 was set to Red and then to Green: only its green cell is lit.
C39_Witness ==
    /\ tasks[1].pc = "reply" /\ tasks[1].handler = "set_led"
    /\ tasks[1].msg.num = 5 /\ tasks[1].msg.arg = "Red"
    /\ tasks[2].pc = "reply" /\ tasks[2].handler = "set_led"
    /\ tasks[2].msg.num = 5 /\ tasks[2].msg.arg = "Green"
    /\ cells = {GreenLoc(5)}

-----------------------------------------------------------------------------
(* Properties of the two blink tasks side by side *)

\* The display modes set by the commands blink_task and blink_loop have sent.
ModesSent == [k \in 1..Len(blinkPair.sent) |-> ModeOf(blinkPair.sent[k])]

\* seq without the steady On commands given while the display, whose mode was
\* `last` before seq, is steady On already.
RECURSIVE WithoutRepeatedOn(_, _)
WithoutRepeatedOn(seq, last) ==
    IF seq = <<>>
    THEN <<>>
    ELSE IF Head(seq) = "ON" /\ last = "ON"
         THEN WithoutRepeatedOn(Tail(seq), last)
         ELSE <<Head(seq)>> \o WithoutRepeatedOn(Tail(seq), Head(seq))

\* C40 as stated: on every sequence of LedSet/LedClear events and timer
\* expiries the two blink tasks have issued the same sequence of display modes.
C40_SameCommands == blinkPair.shown = ModesSent

\* C40: on every sequence of LedSet/LedClear events and timer expiries the two
\* blink tasks are in corresponding positions and have issued the same
\* sequence of display modes, except that the state machine sets steady On
\* again for a LedClear that arrives while the display is steady On, for which
\* blink_task sends no command.
C40_SameButRepeatedOn ==
    /\ WithoutRepeatedOn(blinkPair.shown, "ON") = ModesSent
    /\ blinkPair.at = "recv" <=> blinkPair.state \in {"Init", "Off"}
    /\ blinkPair.at = "sleep60" <=> blinkPair.state = "Fast"
    /\ blinkPair.at = "sleep300" <=> blinkPair.state = "Med"
    /\ blinkPair.at = "sleep900" <=> blinkPair.state = "Slow"

\* A LedClear while idle, then a LedSet, the 60 s period and a LedClear.
C40_Witness ==
    /\ blinkPair.inputs = <<"LedClear", "LedSet", "TimerDone", "LedClear">>
    /\ blinkPair.sent = <<"StartBlink", "MediumBlink", "StopBlink">>
    /\ blinkPair.shown = <<"ON", "TWO_HZ", "ONE_HZ", "ON">>


====
